---- MODULE Spec2Model ----
(***************************************************************************)
(* The shared in-memory store of grow-a-cache (src/storage.rs) and the     *)
(* incr/decr handler that drives it (src/runtime/request.rs), as a state   *)
(* machine.  Every step is one lock acquisition or one atomic access of    *)
(* the code, so that the same actions serve the sequential and the         *)
(* concurrent specifications.                                              *)
(***************************************************************************)
EXTENDS Integers, Sequences, FiniteSets, TLC

(* ------------------------------ bounds -------------------------------- *)

\* Largest value length the model stores (set values and append results).
MaxValLen == 3
\* Calls that issue a CAS token are offered while cas_counter <= MaxCas.
MaxCas == 3
\* Calls that record an access are offered while access_counter < MaxAcc.
MaxAcc == 4
\* The clock runs from 0 to MaxTime.
MaxTime == 1
\* The io_uring worker: config.max_connections, config.buffer_size in bytes,
\* and the number of clients that connect during a run.
MaxConnections == 2
BufferSize == 6
MaxClients == 3
\* config.max_value_size in bytes: larger than one buffer, as in the default
\* configuration.
MaxValueSize == 7

Workers == {1, 2}
Keys == {"a", "bb"}
\* Value bytes are ASCII digits, written as the digit they show.
SetValues == {<<1>>, <<2, 2, 2>>}
ExtValues == {<<2>>}
FlagChoices == {5}
TtlChoices == {0, 1}
KeyLists == {<<"a", "bb">>, <<"bb", "a">>}
\* Configured memory limits explored: one item at most, or two small items.
MaxMemoryChoices == {76, 150}

(* ---------------------------- constants ------------------------------- *)

\* std::mem::size_of::<CacheItem>() on a 64-bit target:
\* Vec<u8> 24 + Option<Instant> 16 + u64 8 + Instant 16 + u32 4, padded to 72.
ItemOverhead == 72
\* u64 arithmetic is modular.  TLC integers are 32 bits wide, so the modulus
\* 2^64 of AtomicU64/usize is scaled to 2^16; every size in the model is far
\* below it, so wrap-around happens exactly where it does in the code.
U64Modulus == 2 ^ 16

VARIABLES
    data,            \* Storage.data: HashMap<String, CacheItem>
    access_order,    \* Storage.access_order: HashMap<String, u64>
    memory_used,     \* Storage.memory_used: AtomicU64
    cas_counter,     \* Storage.cas_counter: AtomicU64
    access_counter,  \* Storage.access_counter: AtomicU64
    max_memory,      \* Storage.max_memory (immutable configuration)
    default_ttl,     \* Storage.default_ttl (immutable configuration)
    inputs,          \* the keys, values and TTLs the clients send
    now,             \* Instant::now(), in seconds
    dataLock,        \* state of the RwLock around data
    orderLock,       \* state of the RwLock around access_order
    pc,              \* per worker: the step of the call it is executing
    loc,             \* per worker: arguments and locals of that call
    hist,            \* history: uses of the keys, CAS tokens stored so far
    write_buffers,   \* uring worker: the BufferPool of write buffers
    connections,     \* uring worker: the ConnectionRegistry
    tokens,          \* uring worker: the operations in flight on the ring
    accepted,        \* connections the listener has handed out
    buffers,         \* mio worker: the BufferPool
    sockets          \* the TCP connections, by descriptor

store == <<data, access_order, memory_used, cas_counter, access_counter>>
config == <<max_memory, default_ttl, inputs>>
locks == <<dataLock, orderLock>>
uring == <<write_buffers, connections, tokens, accepted>>
net == <<buffers, sockets>>
vars == <<data, access_order, memory_used, cas_counter, access_counter,
          max_memory, default_ttl, inputs, now, dataLock, orderLock,
          pc, loc, hist, write_buffers, connections, tokens, accepted,
          buffers, sockets>>

(* ------------------------- data structures ---------------------------- *)

\* Option<Instant>::None of CacheItem.expires_at.
NoExpiry == -1

\* Option<CacheItem>::None; cas_unique 0 is never issued (the counter starts at 1).
NoItem == [value |-> <<>>, flags |-> 0, expires_at |-> NoExpiry, cas_unique |-> 0]

\* Fault injection for C14: an insert that leaves the map as it was.
MapInsert_lost(m, k, v) == m

\* Fault injection for C16: a remove that leaves the map as it was.
MapRemove_kept(m, k) == m

\* HashMap::insert / HashMap::remove on a map held as a function.
MapInsert(m, k, v) == [x \in (DOMAIN m) \cup {k} |-> IF x = k THEN v ELSE m[x]]
MapRemove(m, k) == [x \in (DOMAIN m) \ {k} |-> m[x]]
EmptyMap == <<>>

\* CacheItem::memory_size
memory_size(item) == ItemOverhead + Len(item.value)

\* `item.memory_size() + key.len()`, the footprint the store accounts.
footprint(key, item) == memory_size(item) + Len(key)

\* Fault injection for C6: the comparison `>` in place of `>=`.
is_expired_late(item, t) ==
    IF item.expires_at # NoExpiry THEN t > item.expires_at ELSE FALSE

\* Fault injection for C12: every item with an expiry counts as expired, and
\* so does every item without one.
is_expired_always(item, t) == TRUE

\* CacheItem::is_expired, at clock reading t.
is_expired(item, t) ==
    IF item.expires_at # NoExpiry THEN t >= item.expires_at ELSE FALSE

\* Fault injection for C19: a ttl of 0 never expires, whatever the default.
calculate_expiry_no_default(ttl) == IF ttl = 0 THEN NoExpiry ELSE now + ttl

\* Storage::calculate_expiry
calculate_expiry(ttl) ==
    LET effective_ttl == IF ttl = 0 THEN default_ttl ELSE ttl
    IN  IF effective_ttl = 0 THEN NoExpiry ELSE now + effective_ttl

\* AtomicU64::fetch_sub / fetch_add: the new value, wrapping.
u64_sub(a, b) == (a - b) % U64Modulus
u64_add(a, b) == (a + b) % U64Modulus

\* `a + b` on usize: TRUE when the sum does not fit.  The sum then wraps in a
\* build without overflow checks (the release profile) and panics in a build
\* with them (the debug profile).
usize_overflows(a, b) == a + b >= U64Modulus
OverflowOutcomes(a, b) == IF usize_overflows(a, b) THEN {"wrap", "panic"} ELSE {"fits"}

\* StorageStats as returned by Storage::stats.
stats ==
    [item_count |-> Cardinality(DOMAIN data), memory_used |-> memory_used,
     max_memory |-> max_memory, cas_counter |-> cas_counter]

\* RwLock: [writer |-> worker or 0, readers |-> set of workers].
Unlocked == [writer |-> 0, readers |-> {}]
CanRead(l) == l.writer = 0
CanWrite(l) == l.writer = 0 /\ l.readers = {}
ReadLocked(l, w) == [l EXCEPT !.readers = @ \cup {w}]
WriteLocked(l, w) == [l EXCEPT !.writer = w]
ReadReleased(l, w) == [l EXCEPT !.readers = @ \ {w}]

(* ------------------------ per-worker locals --------------------------- *)

\* Arguments, locals and return value of the call a worker executes.  The
\* fields preData, preNow (the data map and the clock as the call found them),
\* sawExpired, exhausted, evicted, tfind and overlap record the history of the
\* call and are read by properties only.
\* No ParseResult yet.
NoParse == [kind |-> "none"]

Blank ==
    [op |-> "none", outer |-> "none", key |-> "", value |-> <<>>, flags |-> 0,
     ttl |-> 0, token |-> 0, delta |-> 0, keys |-> <<>>, idx |-> 0,
     item |-> NoItem, needed |-> 0, victim |-> "",
     dkey |-> "", dcont |-> "", econt |-> "", rkey |-> "", rseq |-> 0,
     rcont |-> "", tfind |-> 0,
     expired_keys |-> <<>>, results |-> <<>>, res |-> "", got |-> NoItem,
     num |-> 0, preData |-> <<>>, preNow |-> 0, sawExpired |-> FALSE,
     exhausted |-> FALSE, evicted |-> <<>>, overlap |-> FALSE,
     nx |-> FALSE, xx |-> FALSE,
     input |-> <<>>, parsed |-> NoParse, encoded |-> <<>>,
     reparsed |-> NoParse,
     chain |-> [some |-> FALSE, buffers |-> <<>>, len |-> 0], contents |-> <<>>,
     failed |-> FALSE, held |-> 0, available |-> 0]

Merge(base, upd) ==
    [f \in DOMAIN base |-> IF f \in DOMAIN upd THEN upd[f] ELSE base[f]]

\* Worker w continues at label l with the locals in upd changed.
Goto(w, l, upd) ==
    /\ pc' = [pc EXCEPT ![w] = l]
    /\ loc' = [loc EXCEPT ![w] = Merge(loc[w], upd)]

Busy(w) == pc[w] \notin {"idle", "done", "panicked"}

\* Worker w starts a call: the arguments, and the state of the key as the call
\* finds it.
Call(w, first, args) ==
    /\ pc[w] = "idle"
    /\ pc' = [pc EXCEPT ![w] = first]
    /\ loc' = [loc EXCEPT ![w] =
          Merge(Merge(Blank, args),
                [preData |-> data, preNow |-> now,
                 overlap |-> \E o \in Workers \ {w} :
                                /\ Busy(o)
                                /\ loc[o].op = args.op
                                /\ loc[o].key = args.key])]
    /\ UNCHANGED <<store, config, uring, net, now, locks, hist>>

\* The history, read by properties only: uses lists the present keys, least
\* recently used first; tokens holds the CAS token of every item version
\* stored so far; dup tells whether a token was stored a second time.
\* last holds, for each worker and when inputs.remember asks for it, the key
\* and the value of the worker's last call if that call wrote an item.
NoCall == [wrote |-> FALSE, key |-> "", value |-> <<>>]
NoHistory ==
    [uses |-> <<>>, tokens |-> {}, dup |-> FALSE, last |-> [w \in Workers |-> NoCall]]
\* Key k was just read or written by a call.
Touched(k) == [hist EXCEPT !.uses = SelectSeq(@, LAMBDA x : x # k) \o <<k>>]
\* Key k left the store.
Dropped(k) == [hist EXCEPT !.uses = SelectSeq(@, LAMBDA x : x # k)]
\* An item version carrying the token was stored.
Noted(h, token) ==
    [h EXCEPT !.tokens = @ \cup {token}, !.dup = @ \/ token \in h.tokens]

(* ------------------------------ clock --------------------------------- *)

\* Time passes, between calls and between the steps of a call.
Tick ==
    /\ now < MaxTime
    /\ now' = now + 1
    /\ UNCHANGED <<store, config, uring, net, locks, pc, loc, hist>>

(* ------------------------- Storage::record_access --------------------- *)

\* let seq = self.access_counter.fetch_add(1, SeqCst);
record_access_seq(w) ==
    /\ pc[w] = "record_access"
    /\ access_counter' = u64_add(access_counter, 1)
    /\ Goto(w, "record_access_insert", [rseq |-> access_counter])
    /\ UNCHANGED <<data, access_order, memory_used, cas_counter, config, uring, net, now,
                   locks, hist>>

\* self.access_order.write() ... order.insert(key, seq); the guard is dropped
\* at once and the caller continues at rcont.
record_access_insert(w) ==
    /\ pc[w] = "record_access_insert"
    /\ CanWrite(orderLock)
    /\ access_order' = MapInsert(access_order, loc[w].rkey, loc[w].rseq)
    /\ Goto(w, loc[w].rcont, [rkey |-> "", rseq |-> 0, rcont |-> ""])
    /\ UNCHANGED <<data, memory_used, cas_counter, access_counter, config, uring, net, now,
                   locks, hist>>

(* ----------------------------- Storage::delete ------------------------ *)

\* self.data.write(); data.remove(key); memory_used.fetch_sub(size).  When the
\* key is absent the guard is dropped and delete returns NotFound.
delete_data(w) ==
    /\ pc[w] = "delete_data"
    /\ CanWrite(dataLock)
    /\ LET k == loc[w].dkey
       IN  IF k \in DOMAIN data
           THEN /\ data' = MapRemove(data, k)
                /\ memory_used' = u64_sub(memory_used, footprint(k, data[k]))
                /\ dataLock' = WriteLocked(dataLock, w)
                /\ hist' = Dropped(k)
                /\ Goto(w, "delete_order", [res |-> "Deleted"])
           ELSE /\ Goto(w, loc[w].dcont, [res |-> "NotFound", dkey |-> "", dcont |-> ""])
                /\ UNCHANGED <<data, memory_used, dataLock, hist>>
    /\ UNCHANGED <<access_order, cas_counter, access_counter, config, uring, net, now, orderLock>>

\* self.access_order.write(); order.remove(key); both guards are dropped and
\* delete returns Deleted.
delete_order(w) ==
    /\ pc[w] = "delete_order"
    /\ CanWrite(orderLock)
    /\ access_order' = MapRemove(access_order, loc[w].dkey)
    /\ dataLock' = Unlocked
    /\ Goto(w, loc[w].dcont, [dkey |-> "", dcont |-> ""])
    /\ UNCHANGED <<data, memory_used, cas_counter, access_counter, config, uring, net, now,
                   orderLock, hist>>

(* ------------------ Storage::ensure_memory_available ------------------ *)

\* The loop test `current + needed > self.max_memory` on usize.
exceeds_limit(current, needed) == u64_add(current, needed) > max_memory

\* current = memory_used.load(); then the loop test.  A panic of the sum
\* happens with no lock held.
ensure_load(w) ==
    /\ pc[w] = "ensure_load"
    /\ \E outcome \in OverflowOutcomes(memory_used, loc[w].needed) :
          IF outcome = "panic"
          THEN Goto(w, "panicked", [res |-> "panic"])
          ELSE IF exceeds_limit(memory_used, loc[w].needed)
               THEN Goto(w, "find_lru_order", [victim |-> ""])
               ELSE Goto(w, loc[w].econt, [econt |-> "", needed |-> 0])
    /\ UNCHANGED <<store, config, uring, net, now, locks, hist>>

(* ------------------------ Storage::find_lru_key ----------------------- *)

\* The scan `for (key, &seq) in order.iter()`: keys are visited in the map's
\* iteration order; acc is <<min_seq, lru_key>>, lru_key "" standing for None.
RECURSIVE lru_scan(_, _, _, _, _)
lru_scan(keys, order, d, t, acc) ==
    IF keys = {} THEN acc
    ELSE LET key == CHOOSE k \in keys : TRUE
             seq == order[key]
             hit == /\ key \in DOMAIN d
                    /\ ~is_expired(d[key], t)
                    /\ seq < acc[1]
         IN  lru_scan(keys \ {key}, order, d, t,
                      IF hit THEN <<seq, key>> ELSE acc)

\* Fault injection for C10: any key of the data map, whatever its last use.
find_lru_key_any(order, d, t) == DOMAIN d

\* The keys find_lru_key may return ({} for None): the key the scan found, or,
\* when it found none, `data.keys().next()`, any key of the data map.
find_lru_key(order, d, t) ==
    LET found == lru_scan(DOMAIN order, order, d, t, <<U64Modulus - 1, "">>)[2]
    IN  IF found # "" THEN {found} ELSE DOMAIN d

\* let order = self.access_order.read().ok()?;
find_lru_order(w) ==
    /\ pc[w] = "find_lru_order"
    /\ CanRead(orderLock)
    /\ orderLock' = ReadLocked(orderLock, w)
    /\ Goto(w, "find_lru_data", [victim |-> ""])
    /\ UNCHANGED <<store, config, uring, net, now, dataLock, hist>>

\* let data = self.data.read().ok()?; the scan; both guards are dropped.  Back
\* in ensure_memory_available: Some(key) goes on to delete(key), None breaks
\* out of the loop.
find_lru_data(w) ==
    /\ pc[w] = "find_lru_data"
    /\ CanRead(dataLock)
    /\ orderLock' = ReadReleased(orderLock, w)
    /\ LET found == find_lru_key(access_order, data, now)
       IN  IF found = {}
           THEN Goto(w, loc[w].econt, [econt |-> "", needed |-> 0, exhausted |-> TRUE])
           ELSE \E k \in found :
                    Goto(w, "delete_data",
                         [victim |-> k, dkey |-> k, dcont |-> "ensure_load",
                          tfind |-> now, evicted |-> Append(loc[w].evicted, k)])
    /\ UNCHANGED <<store, config, uring, net, now, dataLock, hist>>

(* ------------------------------ Storage::set -------------------------- *)

\* Fault injection for C3: a load of the counter in place of fetch_add.
next_cas_unique_load(counter) == [token |-> counter, counter |-> counter]

\* Fault injection for C13: the counter advances but its value is not the
\* token.
next_cas_unique_fixed(counter) == [token |-> 1, counter |-> u64_add(counter, 1)]

\* Storage::next_cas_unique: the token returned, and the counter afterwards.
next_cas_unique(counter) == [token |-> counter, counter |-> u64_add(counter, 1)]

\* The CacheItem is built (calculate_expiry, next_cas_unique) and its size
\* computed; ensure_memory_available(new_size) follows.
set_begin(w) ==
    /\ pc[w] = "set"
    /\ LET issued == next_cas_unique(cas_counter)
           item == [value |-> loc[w].value, flags |-> loc[w].flags,
                    expires_at |-> calculate_expiry(loc[w].ttl),
                    cas_unique |-> issued.token]
       IN  /\ cas_counter' = issued.counter
           /\ Goto(w, "ensure_load",
                   [item |-> item, needed |-> footprint(loc[w].key, item),
                    econt |-> "set_lock"])
    /\ UNCHANGED <<data, access_order, memory_used, access_counter, config, uring, net, now,
                   locks, hist>>

\* self.data.write(); an old item under the key is taken out of the count.
set_lock(w) ==
    /\ pc[w] = "set_lock"
    /\ CanWrite(dataLock)
    /\ dataLock' = WriteLocked(dataLock, w)
    /\ memory_used' =
          IF loc[w].key \in DOMAIN data
          THEN u64_sub(memory_used, footprint(loc[w].key, data[loc[w].key]))
          ELSE memory_used
    /\ Goto(w, "set_insert", [res |-> ""])
    /\ UNCHANGED <<data, access_order, cas_counter, access_counter, config, uring, net, now,
                   orderLock, hist>>

\* memory_used.fetch_add(new_size); data.insert(key, item); record_access(key).
set_insert(w) ==
    /\ pc[w] = "set_insert"
    /\ memory_used' = u64_add(memory_used, footprint(loc[w].key, loc[w].item))
    /\ data' = MapInsert(data, loc[w].key, loc[w].item)
    /\ hist' = Noted(Touched(loc[w].key), loc[w].item.cas_unique)
    /\ Goto(w, "record_access", [rkey |-> loc[w].key, rcont |-> "set_done"])
    /\ UNCHANGED <<access_order, cas_counter, access_counter, config, uring, net, now, locks>>

\* The write guard is dropped and set returns Stored, to the client or to the
\* incr/decr handler (which answers with the number).
set_done(w) ==
    /\ pc[w] = "set_done"
    /\ dataLock' = Unlocked
    /\ Goto(w, "done", [res |-> IF loc[w].op \in {"incr", "decr"}
                                THEN "Numeric" ELSE "Stored"])
    /\ UNCHANGED <<store, config, uring, net, now, orderLock, hist>>

\* item.value.extend_from_slice(data) for append; data followed by the old
\* value for prepend.
extended(op, old, bytes) == IF op = "append" THEN old \o bytes ELSE bytes \o old

\* What worker w's finished call wrote: the value passed to set, add, replace
\* and cas, the digits incr and decr passed to set, the old value extended for
\* append and prepend.
Written(w) ==
    IF loc[w].res \notin {"Stored", "Numeric"} THEN NoCall
    ELSE [wrote |-> TRUE, key |-> loc[w].key,
          value |-> IF loc[w].op \in {"append", "prepend"}
                    THEN extended(loc[w].op, loc[w].preData[loc[w].key].value,
                                  loc[w].value)
                    ELSE loc[w].value]

\* The call returns to its caller.
Return(w) ==
    /\ pc[w] = "done"
    /\ pc' = [pc EXCEPT ![w] = "idle"]
    /\ loc' = [loc EXCEPT ![w] = Blank]
    /\ hist' = IF inputs.remember THEN [hist EXCEPT !.last[w] = Written(w)] ELSE hist
    /\ UNCHANGED <<store, config, uring, net, now, locks>>

(* ------------------------------ Storage::get -------------------------- *)

\* self.data.read(); the lookup and the expiry test.  An expired item: the
\* guard is dropped and delete(key) follows.  A live item: record_access(key)
\* under the read guard.  No item: None.
get_lock(w) ==
    /\ pc[w] = "get"
    /\ CanRead(dataLock)
    /\ LET k == loc[w].key
       IN  IF k \in DOMAIN data
           THEN IF is_expired(data[k], now)
                THEN /\ Goto(w, "delete_data",
                             [dkey |-> k, dcont |-> "get_expired", sawExpired |-> TRUE])
                     /\ UNCHANGED <<dataLock, hist>>
                ELSE /\ dataLock' = ReadLocked(dataLock, w)
                     /\ hist' = Touched(k)
                     /\ Goto(w, "record_access", [rkey |-> k, rcont |-> "get_clone"])
           ELSE /\ Goto(w, "get_return", [got |-> NoItem])
                /\ UNCHANGED <<dataLock, hist>>
    /\ UNCHANGED <<store, config, uring, net, now, orderLock>>

\* Some(item.clone()); the read guard is dropped.
get_clone(w) ==
    /\ pc[w] = "get_clone"
    /\ dataLock' = ReadReleased(dataLock, w)
    /\ Goto(w, "get_return", [got |-> data[loc[w].key]])
    /\ UNCHANGED <<store, config, uring, net, now, orderLock, hist>>

\* After delete(key) of the expired item: return None.
get_expired(w) ==
    /\ pc[w] = "get_expired"
    /\ Goto(w, "get_return", [got |-> NoItem])
    /\ UNCHANGED <<store, config, uring, net, now, locks, hist>>

(* -------------------- handle_incr_decr (request.rs) ------------------- *)

\* str::parse::<u64> of a value made of digits.
RECURSIVE parse_u64(_)
parse_u64(bytes) ==
    IF bytes = <<>> THEN 0
    ELSE 10 * parse_u64(SubSeq(bytes, 1, Len(bytes) - 1)) + bytes[Len(bytes)]

\* u64::to_string, as bytes.
RECURSIVE to_string(_)
to_string(n) ==
    IF n < 10 THEN <<n>> ELSE Append(to_string(n \div 10), n % 10)

\* Fault injection for C18: an addition that stops at the largest u64.
wrapping_add_saturating(a, b) ==
    IF a + b >= U64Modulus THEN U64Modulus - 1 ELSE a + b

wrapping_add(a, b) == (a + b) % U64Modulus
saturating_sub(a, b) == IF a >= b THEN a - b ELSE 0

\* Storage::get has returned, to the client or to handle_incr_decr.  For
\* incr/decr: None answers NOT_FOUND; Some(item) computes the new number and
\* calls storage.set(key, digits, item.flags, 0).
get_return(w) ==
    /\ pc[w] = "get_return"
    /\ IF loc[w].op \in {"incr", "decr"}
       THEN IF loc[w].got = NoItem
            THEN Goto(w, "done", [res |-> "NOT_FOUND"])
            ELSE LET current == parse_u64(loc[w].got.value)
                     new_value == IF loc[w].op = "incr"
                                  THEN wrapping_add(current, loc[w].delta)
                                  ELSE saturating_sub(current, loc[w].delta)
                 IN  Goto(w, "set",
                          [value |-> to_string(new_value), flags |-> loc[w].got.flags,
                           ttl |-> 0, num |-> new_value])
       ELSE Goto(w, "done", [res |-> IF loc[w].got = NoItem THEN "None" ELSE "Some"])
    /\ UNCHANGED <<store, config, uring, net, now, locks, hist>>

(* ----------------------- Storage::add / replace ----------------------- *)

\* The presence test under a read guard, dropped before self.set(...) is called.
add_check(w) ==
    /\ pc[w] = "add"
    /\ CanRead(dataLock)
    /\ LET k == loc[w].key
       IN  IF k \in DOMAIN data /\ ~is_expired(data[k], now)
           THEN Goto(w, "done", [res |-> "NotStored"])
           ELSE Goto(w, "set", [sawExpired |-> k \in DOMAIN data])
    /\ UNCHANGED <<store, config, uring, net, now, locks, hist>>

replace_check(w) ==
    /\ pc[w] = "replace"
    /\ CanRead(dataLock)
    /\ LET k == loc[w].key
       IN  IF k \in DOMAIN data /\ ~is_expired(data[k], now)
           THEN Goto(w, "set", [res |-> ""])
           ELSE Goto(w, "done", [res |-> "NotStored", sawExpired |-> k \in DOMAIN data])
    /\ UNCHANGED <<store, config, uring, net, now, locks, hist>>

(* ------------------------------ Storage::cas -------------------------- *)

\* Fault injection for C11: the match arm that compares the tokens left out.
token_differs_never(item, cas_unique) == FALSE

\* The guard `item.cas_unique != cas_unique` of the CasMismatch arm.
token_differs(item, cas_unique) == item.cas_unique # cas_unique

\* self.data.write() and the match.  None: NotFound.  Expired: the item is
\* removed and its size subtracted, NotFound.  Token differs: CasMismatch.
\* Otherwise the new item is built (calculate_expiry, next_cas_unique).
cas_lock(w) ==
    /\ pc[w] = "cas"
    /\ CanWrite(dataLock)
    /\ LET k == loc[w].key
       IN  IF k \notin DOMAIN data
           THEN /\ Goto(w, "done", [res |-> "NotFound"])
                /\ UNCHANGED <<data, memory_used, cas_counter, dataLock, hist>>
           ELSE IF is_expired(data[k], now)
           THEN /\ data' = MapRemove(data, k)
                /\ memory_used' = u64_sub(memory_used, footprint(k, data[k]))
                /\ hist' = Dropped(k)
                /\ Goto(w, "done", [res |-> "NotFound", sawExpired |-> TRUE])
                /\ UNCHANGED <<cas_counter, dataLock>>
           ELSE IF token_differs(data[k], loc[w].token)
           THEN /\ Goto(w, "done", [res |-> "CasMismatch"])
                /\ UNCHANGED <<data, memory_used, cas_counter, dataLock, hist>>
           ELSE LET issued == next_cas_unique(cas_counter)
                    new_item == [value |-> loc[w].value, flags |-> loc[w].flags,
                                 expires_at |-> calculate_expiry(loc[w].ttl),
                                 cas_unique |-> issued.token]
                IN  /\ cas_counter' = issued.counter
                    /\ dataLock' = WriteLocked(dataLock, w)
                    /\ Goto(w, "cas_sub",
                            [item |-> new_item, needed |-> footprint(k, new_item)])
                    /\ UNCHANGED <<data, memory_used, hist>>
    /\ UNCHANGED <<access_order, access_counter, config, uring, net, now, orderLock>>

\* memory_used.fetch_sub(old_size); drop(data); ensure_memory_available(new_size).
cas_sub(w) ==
    /\ pc[w] = "cas_sub"
    /\ memory_used' = u64_sub(memory_used, footprint(loc[w].key, data[loc[w].key]))
    /\ dataLock' = Unlocked
    /\ Goto(w, "ensure_load", [econt |-> "cas_relock"])
    /\ UNCHANGED <<data, access_order, cas_counter, access_counter, config, uring, net, now,
                   orderLock, hist>>

\* data = self.data.write(); memory_used.fetch_add(new_size);
\* data.insert(key, new_item); record_access(key).
cas_relock(w) ==
    /\ pc[w] = "cas_relock"
    /\ CanWrite(dataLock)
    /\ dataLock' = WriteLocked(dataLock, w)
    /\ memory_used' = u64_add(memory_used, footprint(loc[w].key, loc[w].item))
    /\ data' = MapInsert(data, loc[w].key, loc[w].item)
    /\ hist' = Noted(Touched(loc[w].key), loc[w].item.cas_unique)
    /\ Goto(w, "record_access", [rkey |-> loc[w].key, rcont |-> "cas_done"])
    /\ UNCHANGED <<access_order, cas_counter, access_counter, config, uring, net, now, orderLock>>

\* The write guard is dropped; Stored.
cas_done(w) ==
    /\ pc[w] = "cas_done"
    /\ dataLock' = Unlocked
    /\ Goto(w, "done", [res |-> "Stored"])
    /\ UNCHANGED <<store, config, uring, net, now, orderLock, hist>>

(* ----------------------- Storage::append / prepend -------------------- *)

\* self.data.write() and the match.  None: NotStored.  Expired: the item is
\* removed and its size subtracted, NotStored.  Live: the memory check
\* `current_used + additional_size > self.max_memory`; over the limit, the
\* guard is dropped for ensure_memory_available(additional_size).  A panic of
\* the sum happens with the guard held, which poisons the lock: no later
\* call gets past it.
append_lock(w) ==
    /\ pc[w] = "append"
    /\ CanWrite(dataLock)
    /\ \E outcome \in OverflowOutcomes(memory_used, Len(loc[w].value)) :
       LET k == loc[w].key
           additional_size == Len(loc[w].value)
       IN  IF k \notin DOMAIN data
           THEN /\ Goto(w, "done", [res |-> "NotStored"])
                /\ UNCHANGED <<data, memory_used, dataLock, hist>>
           ELSE IF is_expired(data[k], now)
           THEN /\ data' = MapRemove(data, k)
                /\ memory_used' = u64_sub(memory_used, footprint(k, data[k]))
                /\ hist' = Dropped(k)
                /\ Goto(w, "done", [res |-> "NotStored", sawExpired |-> TRUE])
                /\ UNCHANGED dataLock
           ELSE IF outcome = "panic"
           THEN /\ dataLock' = WriteLocked(dataLock, w)
                /\ Goto(w, "panicked", [res |-> "panic"])
                /\ UNCHANGED <<data, memory_used, hist>>
           ELSE IF exceeds_limit(memory_used, additional_size)
           THEN /\ Goto(w, "ensure_load",
                        [needed |-> additional_size, econt |-> "append_relock"])
                /\ UNCHANGED <<data, memory_used, dataLock, hist>>
           ELSE /\ dataLock' = WriteLocked(dataLock, w)
                /\ Goto(w, "append_extend", [res |-> ""])
                /\ UNCHANGED <<data, memory_used, hist>>
    /\ UNCHANGED <<access_order, cas_counter, access_counter, config, uring, net, now, orderLock>>

\* data = self.data.write(); "Re-check if item still exists".
append_relock(w) ==
    /\ pc[w] = "append_relock"
    /\ CanWrite(dataLock)
    /\ LET k == loc[w].key
       IN  IF k \in DOMAIN data /\ ~is_expired(data[k], now)
           THEN /\ dataLock' = WriteLocked(dataLock, w)
                /\ Goto(w, "append_extend", [res |-> ""])
           ELSE /\ Goto(w, "done", [res |-> "NotStored"])
                /\ UNCHANGED dataLock
    /\ UNCHANGED <<store, config, uring, net, now, orderLock, hist>>

\* The value is extended and item.cas_unique = self.next_cas_unique().
append_extend(w) ==
    /\ pc[w] = "append_extend"
    /\ LET k == loc[w].key
           issued == next_cas_unique(cas_counter)
       IN  /\ data' = [data EXCEPT ![k] =
                         [@ EXCEPT !.value = extended(loc[w].op, @, loc[w].value),
                                   !.cas_unique = issued.token]]
           /\ cas_counter' = issued.counter
           /\ hist' = Noted(hist, issued.token)
    /\ Goto(w, "append_account", [res |-> ""])
    /\ UNCHANGED <<access_order, memory_used, access_counter, config, uring, net, now, locks>>

\* memory_used.fetch_add(additional_size); record_access(key).
append_account(w) ==
    /\ pc[w] = "append_account"
    /\ memory_used' = u64_add(memory_used, Len(loc[w].value))
    /\ hist' = Touched(loc[w].key)
    /\ Goto(w, "record_access", [rkey |-> loc[w].key, rcont |-> "append_done"])
    /\ UNCHANGED <<data, access_order, cas_counter, access_counter, config, uring, net, now, locks>>

\* The write guard is dropped; Stored.
append_done(w) ==
    /\ pc[w] = "append_done"
    /\ dataLock' = Unlocked
    /\ Goto(w, "done", [res |-> "Stored"])
    /\ UNCHANGED <<store, config, uring, net, now, orderLock, hist>>

(* ---------------------------- Storage::get_multi ---------------------- *)

\* let data = self.data.read().unwrap();
get_multi_lock(w) ==
    /\ pc[w] = "get_multi"
    /\ CanRead(dataLock)
    /\ dataLock' = ReadLocked(dataLock, w)
    /\ Goto(w, "get_multi_next", [idx |-> 1])
    /\ UNCHANGED <<store, config, uring, net, now, orderLock, hist>>

\* One turn of `for &key in keys`: an expired item is noted, a live one has
\* its access recorded; after the last key the guard is dropped.
get_multi_next(w) ==
    /\ pc[w] = "get_multi_next"
    /\ IF loc[w].idx > Len(loc[w].keys)
       THEN /\ dataLock' = ReadReleased(dataLock, w)
            /\ Goto(w, "get_multi_cleanup", [idx |-> 0])
            /\ UNCHANGED hist
       ELSE LET k == loc[w].keys[loc[w].idx]
            IN  IF k \notin DOMAIN data
                THEN /\ Goto(w, "get_multi_next", [idx |-> loc[w].idx + 1])
                     /\ UNCHANGED <<dataLock, hist>>
                ELSE IF is_expired(data[k], now)
                THEN /\ Goto(w, "get_multi_next",
                             [idx |-> loc[w].idx + 1, sawExpired |-> TRUE,
                              expired_keys |-> Append(loc[w].expired_keys, k)])
                     /\ UNCHANGED <<dataLock, hist>>
                ELSE /\ hist' = Touched(k)
                     /\ Goto(w, "record_access", [rkey |-> k, rcont |-> "get_multi_push"])
                     /\ UNCHANGED dataLock
    /\ UNCHANGED <<store, config, uring, net, now, orderLock>>

\* results.push((key, item.clone()))
get_multi_push(w) ==
    /\ pc[w] = "get_multi_push"
    /\ LET k == loc[w].keys[loc[w].idx]
       IN  Goto(w, "get_multi_next",
                [idx |-> loc[w].idx + 1,
                 results |-> Append(loc[w].results, <<k, data[k]>>)])
    /\ UNCHANGED <<store, config, uring, net, now, locks, hist>>

\* `for key in expired_keys { self.delete(&key); }`, shared with
\* cleanup_expired; then the call returns.
get_multi_cleanup(w) ==
    /\ pc[w] = "get_multi_cleanup"
    /\ IF loc[w].expired_keys = <<>>
       THEN Goto(w, "done", [res |-> "Results"])
       ELSE Goto(w, "delete_data",
                 [dkey |-> Head(loc[w].expired_keys), dcont |-> "get_multi_cleanup",
                  expired_keys |-> Tail(loc[w].expired_keys)])
    /\ UNCHANGED <<store, config, uring, net, now, locks, hist>>

(* -------------------------- Storage::cleanup_expired ------------------ *)

\* The sequences that list every element of S once.
Orderings(S) ==
    {s \in [1..Cardinality(S) -> S] : \A i, j \in DOMAIN s : s[i] = s[j] => i = j}

\* First pass under a read guard: the expired keys, in the map's iteration
\* order.
cleanup_expired_scan(w) ==
    /\ pc[w] = "cleanup_expired"
    /\ CanRead(dataLock)
    /\ \E s \in Orderings({k \in DOMAIN data : is_expired(data[k], now)}) :
          Goto(w, "get_multi_cleanup",
               [expired_keys |-> s, num |-> Len(s), sawExpired |-> s # <<>>])
    /\ UNCHANGED <<store, config, uring, net, now, locks, hist>>

(* ----------------------------- Storage::flush_all --------------------- *)

\* Fault injection for C15: a flush that also starts the CAS counter afresh.
flush_all_counters_reset(used, counter) == [memory_used |-> 0, cas_counter |-> 1]

\* The counters after flush_all: memory_used.store(0), cas_counter untouched.
flush_all_counters(used, counter) == [memory_used |-> 0, cas_counter |-> counter]

\* let mut data = self.data.write().unwrap();
flush_all_data(w) ==
    /\ pc[w] = "flush_all"
    /\ CanWrite(dataLock)
    /\ dataLock' = WriteLocked(dataLock, w)
    /\ Goto(w, "flush_all_order", [res |-> ""])
    /\ UNCHANGED <<store, config, uring, net, now, orderLock, hist>>

\* let mut order = self.access_order.write().unwrap(); both maps are cleared,
\* memory_used.store(0), both guards are dropped.
flush_all_order(w) ==
    /\ pc[w] = "flush_all_order"
    /\ CanWrite(orderLock)
    /\ data' = EmptyMap
    /\ access_order' = EmptyMap
    /\ memory_used' = flush_all_counters(memory_used, cas_counter).memory_used
    /\ cas_counter' = flush_all_counters(memory_used, cas_counter).cas_counter
    /\ dataLock' = Unlocked
    /\ hist' = [hist EXCEPT !.uses = <<>>]
    /\ Goto(w, "done", [res |-> "Flushed"])
    /\ UNCHANGED <<access_counter, config, uring, net, now, orderLock>>

(* -------------------------------- calls ------------------------------- *)

\* Room left under the bounds for a call that issues a CAS token and records
\* n accesses.
TokenRoom == cas_counter <= MaxCas
AccessRoom(n) == access_counter + n <= MaxAcc

DeltaChoices == {1}

call_get(w) ==
    \E k \in inputs.keys :
        /\ AccessRoom(1)
        /\ Call(w, "get", [op |-> "get", key |-> k])

call_get_multi(w) ==
    \E ks \in KeyLists :
        /\ \A i \in DOMAIN ks : ks[i] \in inputs.keys
        /\ AccessRoom(Len(ks))
        /\ Call(w, "get_multi", [op |-> "get_multi", key |-> "", keys |-> ks])

call_set(w) ==
    \E k \in inputs.keys, v \in inputs.values, f \in FlagChoices, t \in inputs.ttls :
        /\ TokenRoom /\ AccessRoom(1)
        /\ Call(w, "set", [op |-> "set", key |-> k, value |-> v, flags |-> f, ttl |-> t])

call_add(w) ==
    \E k \in inputs.keys, v \in inputs.values, f \in FlagChoices, t \in inputs.ttls :
        /\ TokenRoom /\ AccessRoom(1)
        /\ Call(w, "add", [op |-> "add", key |-> k, value |-> v, flags |-> f, ttl |-> t])

call_replace(w) ==
    \E k \in inputs.keys, v \in inputs.values, f \in FlagChoices, t \in inputs.ttls :
        /\ TokenRoom /\ AccessRoom(1)
        /\ Call(w, "replace",
                [op |-> "replace", key |-> k, value |-> v, flags |-> f, ttl |-> t])

call_cas(w) ==
    \E k \in inputs.keys, v \in inputs.values, f \in FlagChoices, t \in inputs.ttls,
       token \in 1..MaxCas :
        /\ TokenRoom /\ AccessRoom(1)
        /\ Call(w, "cas", [op |-> "cas", key |-> k, value |-> v, flags |-> f,
                           ttl |-> t, token |-> token])

call_append(w) ==
    \E k \in inputs.keys, v \in ExtValues, op \in {"append", "prepend"} :
        /\ TokenRoom /\ AccessRoom(1)
        /\ k \in DOMAIN data => Len(data[k].value) + Len(v) <= MaxValLen
        /\ Call(w, "append", [op |-> op, key |-> k, value |-> v])

call_incr_decr(w) ==
    \E k \in inputs.keys, d \in DeltaChoices, op \in {"incr", "decr"} :
        /\ TokenRoom /\ AccessRoom(2)
        /\ k \in DOMAIN data =>
              LET new_value == IF op = "incr"
                               THEN wrapping_add(parse_u64(data[k].value), d)
                               ELSE saturating_sub(parse_u64(data[k].value), d)
              IN  \/ Len(to_string(new_value)) <= MaxValLen
                  \/ Len(to_string(new_value)) <= Len(data[k].value)
        /\ Call(w, "get", [op |-> op, key |-> k, delta |-> d])

call_delete(w) ==
    \E k \in inputs.keys :
        Call(w, "delete_data", [op |-> "delete", key |-> k, dkey |-> k, dcont |-> "done"])

call_flush_all(w) ==
    Call(w, "flush_all", [op |-> "flush_all", key |-> ""])

call_cleanup_expired(w) ==
    Call(w, "cleanup_expired", [op |-> "cleanup_expired", key |-> ""])

(* ------------------------------ RESP SET ------------------------------ *)

\* RespHandler::execute for RespCommand::Set { key, value, ex, nx, xx }: NX
\* with XX is an error and no call of the store, NX is Storage::add, XX is
\* Storage::replace, neither is Storage::set.  outer names the path.
RespHandler_execute_set(w) ==
    \E k \in inputs.keys, v \in inputs.values, t \in inputs.ttls,
       nx \in BOOLEAN, xx \in BOOLEAN :
        /\ TokenRoom /\ AccessRoom(1)
        /\ LET args == [outer |-> "RespHandler", key |-> k, value |-> v,
                        flags |-> 0, ttl |-> t, nx |-> nx, xx |-> xx]
           IN  IF nx /\ xx
               THEN Call(w, "done", [op |-> "none", res |-> "Error"] @@ args)
               ELSE IF nx THEN Call(w, "add", [op |-> "add"] @@ args)
               ELSE IF xx THEN Call(w, "replace", [op |-> "replace"] @@ args)
               ELSE Call(w, "set", [op |-> "set"] @@ args)

\* execute_resp_command for "SET": the key and the value are args[1] and
\* args[2], whatever follows them is not looked at, and the call is
\* storage.set(&key, value, 0, 0).
execute_resp_command_set(w) ==
    \E k \in inputs.keys, v \in inputs.values, nx \in BOOLEAN, xx \in BOOLEAN :
        /\ TokenRoom /\ AccessRoom(1)
        /\ Call(w, "set", [op |-> "set", outer |-> "execute_resp_command",
                           key |-> k, value |-> v, flags |-> 0, ttl |-> 0,
                           nx |-> nx, xx |-> xx])

\* The frame a finished RESP SET answers with: the handler turns Stored into
\* +OK, its error into an error frame and everything else into a null bulk;
\* the dispatcher answers +OK.
resp_set_frame(outer, res) ==
    IF outer = "execute_resp_command" THEN "OK"
    ELSE CASE res = "Stored" -> "OK"
           [] res = "Error" -> "ERR"
           [] OTHER -> "null"

(* ------------------- memcached text protocol on the wire ------------- *)

\* A byte of the wire.  CR and LF are the two bytes of the line terminator
\* and NUL is the zero byte of a fresh buffer.  Every other byte stands for
\* one word of a command line or of a response, so that a line has the
\* shape the parser looks at and the lengths the dispatcher adds up:
\*   g            get of a small item        d        delete
\*   G            get of an item larger than one buffer
\*   s <bytes>    set with <bytes> of payload          q    quit
\*   n            the noreply suffix of d and s
\* and a payload byte is any byte.
CR == "CR"
LF == "LF"
NUL == "NUL"

\* Option<usize>::None of find_crlf.
NoCrlf == -1

\* find_crlf / find_recovery_point: the offset of the first "\r\n".
find_crlf(buffer) ==
    LET hits == {i \in 0 .. (Len(buffer) - 2) :
                    buffer[i + 1] = CR /\ buffer[i + 2] = LF}
    IN  IF hits = {} THEN NoCrlf
        ELSE CHOOSE i \in hits : \A j \in hits : i <= j

\* The <bytes> field of a storage header: a decimal number.
IsNumber(word) == \E n \in 0 .. (2 * BufferSize + 2) : ToString(n) = word
Number(word) == CHOOSE n \in 0 .. (2 * BufferSize + 2) : ToString(n) = word

\* ParseResult of the memcached parser.
ParseComplete(command, noreply, consumed) ==
    [kind |-> "Complete", command |-> command, noreply |-> noreply,
     consumed |-> consumed, data_bytes |-> 0]
ParseNeedData(noreply, command_bytes, data_bytes) ==
    [kind |-> "NeedData", command |-> "s", noreply |-> noreply,
     consumed |-> command_bytes, data_bytes |-> data_bytes]
ParseIncomplete ==
    [kind |-> "Incomplete", command |-> "", noreply |-> FALSE,
     consumed |-> 0, data_bytes |-> 0]
ParseError ==
    [kind |-> "Error", command |-> "", noreply |-> FALSE,
     consumed |-> 0, data_bytes |-> 0]

\* Parser::parse: one command line.  A line without its CRLF is Incomplete,
\* a retrieval or delete or quit line is Complete with the line consumed, a
\* storage header is NeedData with command_bytes counting the header and
\* its CRLF, anything else is an Error.
Parser_parse(input) ==
    LET pos == find_crlf(input)
        line == SubSeq(input, 1, pos)
    IN  IF pos = NoCrlf THEN ParseIncomplete
        ELSE IF line \in {<<"g">>, <<"G">>, <<"d">>, <<"q">>}
        THEN ParseComplete(line[1], FALSE, pos + 2)
        ELSE IF line = <<"d", "n">> THEN ParseComplete("d", TRUE, pos + 2)
        ELSE IF Len(line) \in {2, 3} /\ line[1] = "s" /\ IsNumber(line[2])
                /\ (Len(line) = 3 => line[3] = "n")
        THEN ParseNeedData(Len(line) = 3, pos + 2, Number(line[2]))
        ELSE ParseError

\* Parser::parse_with_data: the storage command with its data block, which
\* must end in CRLF.
Parser_parse_with_data(input) ==
    LET header == Parser_parse(input)
        total == header.consumed + header.data_bytes + 2
    IN  IF header.kind # "NeedData" THEN header
        ELSE IF Len(input) >= total /\ input[total - 1] = CR /\ input[total] = LF
        THEN ParseComplete("s", header.noreply, total)
        ELSE ParseError

\* The responses, one word and the line terminator each.
Response_stored == <<"STORED", CR, LF>>
Response_deleted == <<"DELETED", CR, LF>>
Response_end == <<"END", CR, LF>>
Response_client_error == <<"CLIENT_ERROR", CR, LF>>
\* VALUE <key> <flags> <bytes>, the data of an item that fills one buffer, END.
Response_value_large ==
    <<"VALUE", CR, LF>> \o [i \in 1 .. BufferSize |-> "v"] \o <<CR, LF>>
    \o Response_end

\* execute_command and execute_storage_command: the bytes of the response.
\* With noreply they are none.
execute_command(command, noreply) ==
    IF noreply THEN <<>>
    ELSE CASE command = "g" -> Response_end
           [] command = "G" -> Response_value_large
           [] command = "d" -> Response_deleted
           [] command = "s" -> Response_stored

\* copy_response: the response, cut to the length of the output buffer.
copy_response(response, output_len) ==
    SubSeq(response, 1, IF Len(response) < output_len THEN Len(response)
                        ELSE output_len)

\* ProcessResult.  executed is the command the dispatcher has run, if any.
NeedData ==
    [kind |-> "NeedData", consumed |-> 0, response |-> <<>>,
     command_len |-> 0, value_len |-> 0, executed |-> ""]
NeedChain(command_len, value_len) ==
    [kind |-> "NeedChain", consumed |-> 0, response |-> <<>>,
     command_len |-> command_len, value_len |-> value_len, executed |-> ""]
Response(consumed, response, executed) ==
    [kind |-> "Response", consumed |-> consumed, response |-> response,
     command_len |-> 0, value_len |-> 0, executed |-> executed]
LargeResponse(consumed, response_data, executed) ==
    [kind |-> "LargeResponse", consumed |-> consumed,
     response |-> response_data,
     command_len |-> 0, value_len |-> 0, executed |-> executed]
Quit ==
    [kind |-> "Quit", consumed |-> 0, response |-> <<>>,
     command_len |-> 0, value_len |-> 0, executed |-> ""]
Error ==
    [kind |-> "Error", consumed |-> 0, response |-> <<>>,
     command_len |-> 0, value_len |-> 0, executed |-> ""]

\* process_memcached(input, output, storage, max_value_size) with an output
\* buffer of output_len bytes.
process_memcached(input, output_len, max_value_size) ==
    LET parsed == Parser_parse(input)
    IN
    CASE parsed.kind = "Complete" ->
            IF parsed.command = "q" THEN Quit
            ELSE LET response == execute_command(parsed.command, parsed.noreply)
                 IN  IF parsed.command \in {"g", "G"} /\ Len(response) > output_len
                     THEN LargeResponse(parsed.consumed, response, parsed.command)
                     ELSE Response(parsed.consumed,
                                   copy_response(response, output_len),
                                   parsed.command)
      [] parsed.kind = "NeedData" ->
            LET command_bytes == parsed.consumed
                data_bytes == parsed.data_bytes
                total_needed == command_bytes + data_bytes + 2
            IN  IF data_bytes > max_value_size
                THEN \* Skip past command line
                     Response(command_bytes + 2,
                              copy_response(Response_client_error, output_len), "")
                ELSE IF Len(input) >= total_needed
                THEN IF Parser_parse_with_data(input).kind = "Complete"
                     THEN Response(total_needed,
                                   copy_response(
                                       execute_command("s", parsed.noreply),
                                       output_len),
                                   "s")
                     ELSE NeedData
                ELSE IF data_bytes > output_len
                THEN NeedChain(command_bytes, data_bytes)
                ELSE NeedData
      [] parsed.kind = "Incomplete" -> NeedData
      [] parsed.kind = "Error" -> Error

(* ------------------------- sockets and clients ----------------------- *)

\* What clients send.  Two commands in one stream; a command with noreply
\* and a command after it; a quit after a command.
ScriptPipelined == <<"g", CR, LF, "d", CR, LF>>
ScriptNoreply == <<"d", "n", CR, LF, "g", CR, LF>>
ScriptQuit == <<"g", CR, LF, "q", CR, LF>>
\* A get of the item that fills one buffer, then quit.
ScriptLargeGet == <<"G", CR, LF, "q", CR, LF>>
\* A set of a value of the largest size allowed, one byte more than a buffer.
ScriptLargeSet ==
    <<"s", ToString(MaxValueSize), CR, LF>>
    \o [i \in 1 .. MaxValueSize |-> "p"] \o <<CR, LF>>
\* A get.
ScriptGet == <<"g", CR, LF>>
\* A line that is no command, then a get.
ScriptBad == <<"x", CR, LF, "g", CR, LF>>
\* A set that announces one byte more than the largest size allowed; its
\* payload holds the bytes of a delete command.
ScriptOversized ==
    <<"s", ToString(MaxValueSize + 1), CR, LF, "p", "p", "d", CR, LF>>
    \o [i \in 1 .. MaxValueSize - 4 |-> "p"] \o <<CR, LF>>

\* The traffic of a specification: the scripts its clients choose from, the
\* number of clients that connect, whether the kernel reports I/O errors,
\* and whether clients shut down before the worker closes.
Traffic(scripts, clients, faults, shutdown) ==
    [scripts |-> scripts, clients |-> clients, faults |-> faults,
     shutdown |-> shutdown]

\* A TCP connection as the worker sees it: script is what the client will
\* have sent in the end and pos how much of it has left the client, wire
\* holds the bytes that arrived and were not read yet, fin says the client
\* has shut its side down, sent holds the bytes the worker wrote, and closed
\* says the worker has closed the descriptor.
NewSocket(script) ==
    [script |-> script, pos |-> 0, wire |-> <<>>, fin |-> FALSE,
     sent |-> <<>>, closed |-> FALSE]

\* The socket after the worker closed it: what had arrived is dropped and
\* the client sends no more.
Closed(socket) ==
    [socket EXCEPT !.closed = TRUE, !.wire = <<>>, !.pos = 0, !.fin = FALSE]

\* The descriptors accept hands out: the first client gets 1.
Fds == 1 .. MaxClients

\* The client behind descriptor fd sends the next bytes of its script.
client_send(fd) ==
    /\ fd \in DOMAIN sockets
    /\ ~sockets[fd].closed /\ ~sockets[fd].fin
    /\ \E n \in 1 .. Len(sockets[fd].script) - sockets[fd].pos :
          sockets' = [sockets EXCEPT
              ![fd].wire = @ \o SubSeq(sockets[fd].script, sockets[fd].pos + 1,
                                       sockets[fd].pos + n),
              ![fd].pos = @ + n]
    /\ UNCHANGED <<store, config, uring, buffers, now, locks, pc, loc, hist>>

\* The client behind descriptor fd shuts its side of the connection down.
client_shutdown(fd) ==
    /\ fd \in DOMAIN sockets
    /\ ~sockets[fd].closed /\ ~sockets[fd].fin
    /\ inputs.shutdown
    /\ sockets' = [sockets EXCEPT ![fd].fin = TRUE]
    /\ UNCHANGED <<store, config, uring, buffers, now, locks, pc, loc, hist>>

\* What a read of at most room bytes returns: the bytes that have arrived,
\* 0 at the end of the stream and for a read into no room, a negative
\* number for an error.  Nothing is returned while the stream is open and
\* empty.
ReadResults(fd, room) ==
    LET socket == sockets[fd]
        ready == IF Len(socket.wire) < room THEN Len(socket.wire) ELSE room
    IN  (IF ready > 0 THEN {ready} ELSE {})
        \cup (IF socket.wire = <<>> /\ socket.fin THEN {0} ELSE {})
        \cup (IF socket.wire # <<>> /\ room = 0 THEN {0} ELSE {})
        \cup (IF inputs.faults THEN {-1} ELSE {})

\* What a write of len bytes returns: all of them, the first of them only,
\* 0 for a write of no bytes, and 0 or a negative number for an error.
WriteResults(len) ==
    (IF len = 0 THEN {0} ELSE {len, 1})
    \cup (IF inputs.faults THEN {-1, 0} ELSE {})

(* -------------------- io_uring worker: buffer pool ------------------- *)

\* Option<usize>::None for a buffer index.
NoBuffer == -1

\* let write_pool_size = std::cmp::min(max_connections * 2, 8192);
write_pool_size ==
    IF MaxConnections * 2 < 8192 THEN MaxConnections * 2 ELSE 8192
BufferIdxs == 0 .. (write_pool_size - 1)

\* BufferPool::new: count zeroed buffers, the indices 0 .. count-1 pushed
\* in order.
BufferPool_new(count) ==
    [free_list |-> [i \in 1 .. count |-> i - 1],
     buffers |-> [i \in 0 .. (count - 1) |-> [j \in 1 .. BufferSize |-> NUL]]]

\* BufferPool::alloc is free_list.pop(): the index it returns ...
alloc_idx(pool) ==
    IF pool.free_list = <<>> THEN NoBuffer
    ELSE pool.free_list[Len(pool.free_list)]
\* ... and the pool it leaves.
alloc_pool(pool) ==
    IF pool.free_list = <<>> THEN pool
    ELSE [pool EXCEPT !.free_list = SubSeq(@, 1, Len(@) - 1)]

\* BufferPool::free is free_list.push(idx); the index is not looked up.
free(pool, idx) == [pool EXCEPT !.free_list = Append(@, idx)]

\* buf[offset .. offset + bytes.len()].copy_from_slice(bytes) on buffer idx.
copy_from_slice(pool, idx, offset, bytes) ==
    [pool EXCEPT !.buffers[idx] =
        [j \in 1 .. Len(@) |->
            IF j > offset /\ j <= offset + Len(bytes) THEN bytes[j - offset]
            ELSE @[j]]]

\* buf.copy_within(from .. to, 0) on buffer idx.
copy_within(pool, idx, from, to) ==
    copy_from_slice(pool, idx, 0, SubSeq(pool.buffers[idx], from + 1, to))

(* -------------------- io_uring worker: connections ------------------- *)

ConnIds == 0 .. (MaxConnections - 1)

\* DataState::reading(), DataState::reading_with(filled) and
\* DataState::writing(buf_idx, total).
reading_with(filled) ==
    [state |-> "Reading", filled |-> filled, buf_idx |-> NoBuffer,
     written |-> 0, total |-> 0]
reading == reading_with(0)
writing(buf_idx, total) ==
    [state |-> "Writing", filled |-> 0, buf_idx |-> buf_idx, written |-> 0,
     total |-> total]

\* Connection::new: Established(Reading).  read_buf_idx and read_accumulated
\* are the fields handle_read uses: no accumulation buffer yet, no bytes.
Connection_new(fd) ==
    [fd |-> fd, phase |-> reading, read_buf_idx |-> NoBuffer,
     read_accumulated |-> 0]

\* Fault injection for C39: the connection stays in the registry.
registry_remove_never(conns, conn_id) == conns
\* ConnectionRegistry::remove.
registry_remove(conns, conn_id) ==
    [c \in DOMAIN conns \ {conn_id} |-> conns[c]]
\* Fault injection for C28: the registry takes a connection at any size.
registry_full_never(conns) == FALSE
\* ConnectionRegistry::insert returns None: the registry is at capacity.
registry_full(conns) == Cardinality(DOMAIN conns) >= MaxConnections
\* The keys Slab::insert may hand out: a vacant one, or the next new one.
vacant_keys(conns) == (ConnIds \cup {Cardinality(DOMAIN conns)}) \ DOMAIN conns
\* ConnectionRegistry::insert under a key of the slab that is vacant.
registry_insert(conns, conn_id, conn) ==
    [c \in DOMAIN conns \cup {conn_id} |-> IF c = conn_id THEN conn ELSE conns[c]]

\* OpType, the operation a token stands for.
Accept == [op |-> "Accept", conn_id |-> NoBuffer, buf_idx |-> NoBuffer]
Read(conn_id) == [op |-> "Read", conn_id |-> conn_id, buf_idx |-> NoBuffer]
Write(conn_id, buf_idx) == [op |-> "Write", conn_id |-> conn_id, buf_idx |-> buf_idx]

\* Fault injection for C38: the operation stays allocated after its
\* completion was dispatched.
TokenAllocator_free_never(ops, op) == ops
\* tokens.free(token) of worker_loop: the operation of the completion is
\* taken out of the allocator before its handler runs.
TokenAllocator_free(ops, op) == ops \ {op}

\* close_connection: remove the connection, return the write buffer of a
\* connection in Writing and its accumulation buffer to the pool.
close_connection(conns, pool, conn_id) ==
    IF conn_id \notin DOMAIN conns
    THEN [connections |-> conns, write_buffers |-> pool]
    ELSE LET conn == conns[conn_id]
             pool1 == IF conn.phase.state = "Writing"
                      THEN free(pool, conn.phase.buf_idx) ELSE pool
             pool2 == IF conn.read_buf_idx # NoBuffer
                      THEN free(pool1, conn.read_buf_idx) ELSE pool1
         IN  [connections |-> registry_remove(conns, conn_id),
              write_buffers |-> pool2]

(* ------------------------ mio worker: buffer pool -------------------- *)

\* let pool_size = max_connections * 3;
pool_size == MaxConnections * 3
PoolIdxs == 0 .. (pool_size - 1)

\* BufferPool::alloc_many: count indices popped one after the other, or
\* None and the pool unchanged when fewer are free.
alloc_many_some(pool, count) == Len(pool.free_list) >= count
alloc_many_indices(pool, count) ==
    [i \in 1 .. count |-> pool.free_list[Len(pool.free_list) - i + 1]]
alloc_many_pool(pool, count) ==
    [pool EXCEPT !.free_list = SubSeq(@, 1, Len(@) - count)]

(* ------------------------ mio worker: BufferChain -------------------- *)

\* Option<BufferChain>::None, and BufferChain::new.
NoChain == [some |-> FALSE, buffers |-> <<>>, len |-> 0]
BufferChain_new == [some |-> TRUE, buffers |-> <<>>, len |-> 0]

\* BufferChain::push_buffer for each of indices.
push_buffers(chain, indices) == [chain EXCEPT !.buffers = @ \o indices]

\* Fault injection for C36: a release that forgets the buffers of the chain.
release_forgetting(chain, pool) == pool

\* BufferChain::release: every buffer of the chain goes back to the pool.
release(chain, pool) == [pool EXCEPT !.free_list = @ \o chain.buffers]

\* BufferChain::append with current_buffer_and_offset: the chain and the
\* pool after the copy, ok FALSE for PoolExhausted.
RECURSIVE append(_, _, _)
append(chain, bytes, pool) ==
    IF bytes = <<>> THEN [ok |-> TRUE, chain |-> chain, pool |-> pool]
    ELSE LET offset_in_last == chain.len % BufferSize
             fresh == \/ chain.buffers = <<>>
                      \/ offset_in_last = 0 /\ chain.len > 0
             idx == IF fresh THEN alloc_idx(pool)
                    ELSE chain.buffers[Len(chain.buffers)]
             buf_offset == IF fresh THEN 0 ELSE offset_in_last
             available == BufferSize - buf_offset
             to_copy == IF available < Len(bytes) THEN available ELSE Len(bytes)
         IN  IF idx = NoBuffer
             THEN [ok |-> FALSE, chain |-> chain, pool |-> pool]
             ELSE append(
                    [chain EXCEPT
                        !.buffers = IF fresh THEN Append(@, idx) ELSE @,
                        !.len = @ + to_copy],
                    SubSeq(bytes, to_copy + 1, Len(bytes)),
                    copy_from_slice(IF fresh THEN alloc_pool(pool) ELSE pool,
                                    idx, buf_offset, SubSeq(bytes, 1, to_copy)))

\* BufferChain::assemble: the first len bytes of the buffers, in order.
RECURSIVE assemble_from(_, _, _, _)
assemble_from(chain, pool, i, remaining) ==
    IF i > Len(chain.buffers) THEN <<>>
    ELSE LET buf == pool.buffers[chain.buffers[i]]
             chunk_len == IF remaining < BufferSize THEN remaining ELSE BufferSize
         IN  SubSeq(buf, 1, chunk_len)
             \o assemble_from(chain, pool, i + 1, remaining - chunk_len)
assemble(chain, pool) == assemble_from(chain, pool, 1, chain.len)

\* BufferChain::as_contiguous: the borrowed slice of a chain of one buffer,
\* the assembled copy of a longer one.
as_contiguous(chain, pool) ==
    IF chain.buffers = <<>> THEN <<>>
    ELSE IF Len(chain.buffers) = 1
    THEN SubSeq(pool.buffers[chain.buffers[1]], 1, chain.len)
    ELSE assemble(chain, pool)

\* BufferChain::clear: the length is reset, the buffers stay.
clear(chain) == [chain EXCEPT !.len = 0]

\* What a caller appends in one call: less than a buffer, more than one
\* buffer, more than two.
ChainDatas ==
    {<<"a">>, [i \in 1 .. BufferSize + 1 |-> "b"],
     [i \in 1 .. 2 * BufferSize + 1 |-> "c"]}

\* Calls made on one chain before it is released.
MaxChainOps == 4

\* A worker creates a chain over a pool no buffer of which was used yet
\* (BufferPool::new, BufferChain::new).
chain_new(w) ==
    /\ buffers = BufferPool_new(pool_size)
    /\ Call(w, "chain", [op |-> "chain", key |-> "", chain |-> BufferChain_new])
    /\ UNCHANGED <<store, config, uring, net, now, locks, hist>>

\* chain.append(data, &mut pool); contents keeps what was appended since the
\* last clear, failed that an append returned PoolExhausted.
chain_append(w) ==
    /\ pc[w] = "chain"
    /\ loc[w].idx < MaxChainOps
    /\ \E bytes \in ChainDatas :
       \E appended \in {append(loc[w].chain, bytes, buffers)} :
          /\ buffers' = appended.pool
          /\ Goto(w, "chain",
                  [chain |-> appended.chain, idx |-> loc[w].idx + 1,
                   contents |-> loc[w].contents \o bytes,
                   failed |-> loc[w].failed \/ ~appended.ok])
    /\ UNCHANGED <<store, config, uring, sockets, now, locks, hist>>

\* chain.clear()
chain_clear(w) ==
    /\ pc[w] = "chain"
    /\ loc[w].idx < MaxChainOps
    /\ Goto(w, "chain", [chain |-> clear(loc[w].chain), idx |-> loc[w].idx + 1,
                         contents |-> <<>>, failed |-> FALSE])
    /\ UNCHANGED <<store, config, uring, net, now, locks, hist>>

\* chain.push_buffer(pool.alloc().unwrap()): a buffer allocated ahead.
chain_push_buffer(w) ==
    /\ pc[w] = "chain"
    /\ loc[w].idx < MaxChainOps
    /\ alloc_idx(buffers) # NoBuffer
    /\ buffers' = alloc_pool(buffers)
    /\ Goto(w, "chain",
            [chain |-> push_buffers(loc[w].chain, <<alloc_idx(buffers)>>),
             idx |-> loc[w].idx + 1])
    /\ UNCHANGED <<store, config, uring, sockets, now, locks, hist>>

\* chain.release(&mut pool); held and available keep what
\* chain.buffer_count() and pool.available() were before.
chain_release(w) ==
    /\ pc[w] = "chain"
    /\ buffers' = release(loc[w].chain, buffers)
    /\ Goto(w, "done",
            [chain |-> [loc[w].chain EXCEPT !.buffers = <<>>, !.len = 0],
             held |-> Len(loc[w].chain.buffers),
             available |-> Len(buffers.free_list)])
    /\ UNCHANGED <<store, config, uring, sockets, now, locks, hist>>

\* BufferChain::io_slices(pool, start_offset), as the bytes the slices
\* cover: the loop walks the buffers i, i + 1, ... with skip bytes still to
\* pass over and remaining bytes still to hand out.
RECURSIVE io_slices_from(_, _, _, _, _)
io_slices_from(chain, pool, i, skip, remaining) ==
    IF i > Len(chain.buffers) THEN <<>>
    ELSE LET buf == pool.buffers[chain.buffers[i]]
             chunk_len == IF remaining < BufferSize THEN remaining ELSE BufferSize
         IN  IF skip >= chunk_len
             THEN io_slices_from(chain, pool, i + 1, skip - chunk_len, remaining)
             ELSE SubSeq(buf, skip + 1, chunk_len)
                  \o io_slices_from(chain, pool, i + 1, 0, remaining - chunk_len)
io_slices(chain, pool, start_offset) ==
    IF start_offset >= chain.len THEN <<>>
    ELSE io_slices_from(chain, pool, 1, start_offset, chain.len - start_offset)

(* -------------------- io_uring worker: completions ------------------- *)

\* The store and its workers are not touched by the pool's bookkeeping.
UringFrame == UNCHANGED <<store, config, buffers, now, locks, pc, loc, hist>>

\* handle_accept: the accept is re-armed; a failed accept changes nothing, a
\* connection over the limit is closed at once, any other is registered
\* and its first read submitted.
handle_accept ==
    /\ Accept \in tokens
    /\ accepted < inputs.clients
    /\ \E ok \in (IF inputs.faults THEN BOOLEAN ELSE {TRUE}),
          script \in inputs.scripts :
          IF ~ok THEN UNCHANGED <<uring, sockets>>
          ELSE LET client_fd == accepted + 1
               IN
               /\ accepted' = client_fd
               /\ UNCHANGED write_buffers
               /\ IF registry_full(connections)
                  THEN /\ sockets' = client_fd :> Closed(NewSocket(script)) @@ sockets
                       /\ UNCHANGED <<connections, tokens>>
                  ELSE \E conn_id \in vacant_keys(connections) :
                          /\ connections' = registry_insert(connections, conn_id,
                                                            Connection_new(client_fd))
                          /\ sockets' = client_fd :> NewSocket(script) @@ sockets
                          /\ tokens' = tokens \cup {Read(conn_id)}
    /\ UringFrame

\* handle_read for the completion of the read of conn_id: result is the
\* byte count or an error, has_buf says the kernel picked a buffer of the
\* provided ring, the first result bytes of the wire are in that buffer.
handle_read(conn_id) ==
    /\ Read(conn_id) \in tokens
    /\ conn_id \in DOMAIN connections
    /\ \E result \in ReadResults(connections[conn_id].fd, BufferSize),
          has_buf \in (IF inputs.faults THEN BOOLEAN ELSE {TRUE}) :
       LET fd == connections[conn_id].fd
           freed == TokenAllocator_free(tokens, Read(conn_id))
           new_data == SubSeq(sockets[fd].wire, 1, result)
           taken == [sockets EXCEPT
                        ![fd].wire = SubSeq(@, result + 1, Len(@))]
           Close(conns, pool) ==
               LET closed == close_connection(conns, pool, conn_id)
               IN  /\ connections' = closed.connections
                   /\ write_buffers' = closed.write_buffers
                   /\ tokens' = freed
                   /\ sockets' = [sockets EXCEPT ![fd] = Closed(@)]
       IN
       IF result <= 0 \/ ~has_buf THEN Close(connections, write_buffers)
       ELSE
       LET conn == connections[conn_id]
           accumulated == conn.read_accumulated
           \* Get or allocate accumulation buffer
           fresh == conn.read_buf_idx = NoBuffer
           accum_buf_idx == IF fresh THEN alloc_idx(write_buffers)
                            ELSE conn.read_buf_idx
           pool1 == IF fresh THEN alloc_pool(write_buffers) ELSE write_buffers
           conns1 == [connections EXCEPT ![conn_id].read_buf_idx = accum_buf_idx]
           total_len == accumulated + result
           \* Copy to accumulation buffer
           pool2 == copy_from_slice(pool1, accum_buf_idx, accumulated, new_data)
           conns2 == [conns1 EXCEPT ![conn_id].read_accumulated = total_len]
           input_copy == SubSeq(pool2.buffers[accum_buf_idx], 1, total_len)
           \* Allocate a write buffer for the response
           write_buf_idx == alloc_idx(pool2)
           pool3 == alloc_pool(pool2)
       IN
       IF accum_buf_idx = NoBuffer THEN Close(connections, write_buffers)
       ELSE IF total_len > BufferSize THEN Close(conns1, pool1)
       ELSE IF write_buf_idx = NoBuffer THEN Close(conns2, pool2)
       ELSE
       \E processed \in {process_memcached(input_copy, BufferSize, MaxValueSize)} :
       LET \* Clear accumulated data (or shift unconsumed data to start)
           left == IF processed.consumed < total_len
                   THEN total_len - processed.consumed ELSE 0
           pool4 == IF processed.consumed < total_len
                    THEN copy_within(pool3, accum_buf_idx, processed.consumed,
                                     total_len)
                    ELSE pool3
           conns3 == [conns2 EXCEPT ![conn_id].read_accumulated = left]
           \* conn.start_writing and submit_write
           Start(pool) ==
               /\ connections' =
                    [conns3 EXCEPT ![conn_id].phase =
                        writing(write_buf_idx, Len(processed.response))]
               /\ write_buffers' = pool
               /\ tokens' = freed \cup {Write(conn_id, write_buf_idx)}
               /\ sockets' = taken
       IN
       CASE processed.kind = "NeedData" ->
               /\ connections' = conns2
               /\ write_buffers' = free(pool3, write_buf_idx)
               /\ tokens' = freed \cup {Read(conn_id)}
               /\ sockets' = taken
         [] processed.kind \in {"NeedChain", "Quit", "Error"} ->
               Close(conns2, free(pool3, write_buf_idx))
         [] processed.kind = "Response" ->
               Start(copy_from_slice(pool4, write_buf_idx, 0, processed.response))
         [] processed.kind = "LargeResponse" ->
               IF Len(processed.response) <= BufferSize
               THEN Start(copy_from_slice(pool4, write_buf_idx, 0,
                                          processed.response))
               ELSE Close(conns3, free(pool4, write_buf_idx))
    /\ UNCHANGED accepted
    /\ UringFrame

\* handle_write for the completion of a write of conn_id from buf_idx:
\* result is the byte count, at most what was submitted, or an error.
handle_write(conn_id, buf_idx) ==
    /\ Write(conn_id, buf_idx) \in tokens
    /\ conn_id \in DOMAIN connections
    /\ connections[conn_id].phase.state = "Writing"
    /\ LET freed == TokenAllocator_free(tokens, Write(conn_id, buf_idx))
           fd == connections[conn_id].fd
           phase == connections[conn_id].phase
       IN
       \E result \in WriteResults(phase.total - phase.written) :
          IF result <= 0
          THEN LET closed == close_connection(connections,
                                             free(write_buffers, buf_idx), conn_id)
               IN  /\ connections' = closed.connections
                   /\ write_buffers' = closed.write_buffers
                   /\ tokens' = freed
                   /\ sockets' = [sockets EXCEPT ![fd] = Closed(@)]
          ELSE LET written == phase.written + result
               IN  /\ sockets' = [sockets EXCEPT ![fd].sent =
                          @ \o SubSeq(write_buffers.buffers[phase.buf_idx],
                                      phase.written + 1, written)]
                   /\ IF written >= phase.total
                      THEN \* Write complete, free write buffer and go back
                           \* to reading
                           /\ write_buffers' = free(write_buffers, buf_idx)
                           /\ connections' =
                                [connections EXCEPT ![conn_id].phase = reading]
                           /\ tokens' = freed \cup {Read(conn_id)}
                      ELSE \* Partial write, continue
                           /\ connections' =
                                [connections EXCEPT ![conn_id].phase.written = written]
                           /\ tokens' = freed \cup {Write(conn_id, phase.buf_idx)}
                           /\ UNCHANGED write_buffers
    /\ UNCHANGED accepted
    /\ UringFrame

(* ------------------------- mio worker: events ------------------------ *)

\* Writing { buf_idx: usize::MAX, .. } signals a write from the chain.
usize_MAX == U64Modulus - 1

\* MioConnection of an accepted stream.
MioConnection(stream, read_buf_idx, write_buf_idx) ==
    [stream |-> stream, data_state |-> reading,
     read_buf_idx |-> read_buf_idx, write_buf_idx |-> write_buf_idx,
     read_chain |-> NoChain, write_chain |-> NoChain]

\* Fault injection for C21: the buffers of the write chain stay with the
\* closed connection.
mio_close_connection_leaky(conns, pool, conn_id) ==
    IF conn_id \notin DOMAIN conns
    THEN [connections |-> conns, buffers |-> pool]
    ELSE LET conn == conns[conn_id]
             pool1 == free(free(pool, conn.read_buf_idx), conn.write_buf_idx)
             pool2 == IF conn.read_chain.some
                      THEN release(conn.read_chain, pool1) ELSE pool1
         IN  [connections |-> registry_remove(conns, conn_id),
              buffers |-> pool2]
\* close_connection of the mio worker: the connection leaves the slab, its
\* two buffers and the buffers of its chains go back to the pool.
mio_close_connection(conns, pool, conn_id) ==
    IF conn_id \notin DOMAIN conns
    THEN [connections |-> conns, buffers |-> pool]
    ELSE LET conn == conns[conn_id]
             pool1 == free(free(pool, conn.read_buf_idx), conn.write_buf_idx)
             pool2 == IF conn.read_chain.some
                      THEN release(conn.read_chain, pool1) ELSE pool1
             pool3 == IF conn.write_chain.some
                      THEN release(conn.write_chain, pool2) ELSE pool2
         IN  [connections |-> registry_remove(conns, conn_id),
              buffers |-> pool3]

\* The store, its workers and the ring of the other backend are not touched.
MioFrame ==
    UNCHANGED <<store, config, write_buffers, tokens, now, locks, pc, loc, hist>>

\* accept_connections, one turn of its loop: a stream over the limit or
\* without two free buffers is dropped, any other enters the slab in
\* Reading, registered for READABLE.
accept_connections ==
    /\ accepted < inputs.clients
    /\ \E script \in inputs.scripts :
       LET client_fd == accepted + 1
           read_buf_idx == alloc_idx(buffers)
           pool1 == alloc_pool(buffers)
           write_buf_idx == alloc_idx(pool1)
           pool2 == alloc_pool(pool1)
           Drop(pool) ==
               /\ sockets' = client_fd :> Closed(NewSocket(script)) @@ sockets
               /\ buffers' = pool
               /\ UNCHANGED connections
       IN
       /\ accepted' = client_fd
       /\ IF Cardinality(DOMAIN connections) >= MaxConnections
          THEN Drop(buffers)
          ELSE IF read_buf_idx = NoBuffer THEN Drop(buffers)
          ELSE IF write_buf_idx = NoBuffer THEN Drop(free(pool1, read_buf_idx))
          ELSE \E conn_id \in ConnIds \ DOMAIN connections :
                  /\ connections' =
                        registry_insert(connections, conn_id,
                            MioConnection(client_fd, read_buf_idx, write_buf_idx))
                  /\ buffers' = pool2
                  /\ sockets' = client_fd :> NewSocket(script) @@ sockets
    /\ MioFrame

\* handle_connection_event for a readable event of conn_id, with the
\* close_connection of worker_loop on an error.  The event is delivered
\* whenever a read would not block.
handle_readable(conn_id) ==
    /\ conn_id \in DOMAIN connections
    /\ connections[conn_id].data_state.state = "Reading"
    /\ LET conn == connections[conn_id]
           fd == conn.stream
           filled == conn.data_state.filled
           read_buf_idx == conn.read_buf_idx
           write_buf_idx == conn.write_buf_idx
           Close(conns, pool) ==
               LET closed == mio_close_connection(conns, pool, conn_id)
               IN  /\ connections' = closed.connections
                   /\ buffers' = closed.buffers
                   /\ sockets' = [sockets EXCEPT ![fd] = Closed(@)]
       IN
       \E n \in ReadResults(fd, BufferSize - filled) :
       IF n <= 0 THEN Close(connections, buffers)
       ELSE
       LET taken == [sockets EXCEPT ![fd].wire = SubSeq(@, n + 1, Len(@))]
           pool1 == copy_from_slice(buffers, read_buf_idx, filled,
                                    SubSeq(sockets[fd].wire, 1, n))
           total_filled == filled + n
           input_copy == SubSeq(pool1.buffers[read_buf_idx], 1, total_filled)
       IN
       \E result \in {process_memcached(input_copy, BufferSize, MaxValueSize)} :
       LET \* Move unconsumed data to start of read buffer if needed
           pool2 == IF result.consumed < total_filled
                    THEN copy_within(pool1, read_buf_idx, result.consumed,
                                     total_filled)
                    ELSE pool1
           \* Release any read chain buffers
           pool3 == IF conn.read_chain.some
                    THEN release(conn.read_chain, pool2) ELSE pool2
           conns3 == [connections EXCEPT ![conn_id].read_chain = NoChain]
       IN
       CASE result.kind = "NeedData" ->
               /\ connections' = [connections EXCEPT
                                    ![conn_id].data_state = reading_with(total_filled)]
               /\ buffers' = pool1
               /\ sockets' = taken
         [] result.kind = "NeedChain" ->
               LET total_needed == result.command_len + result.value_len + 2
                   chain_bytes_needed ==
                       IF total_needed > BufferSize
                       THEN total_needed - BufferSize ELSE 0
                   chain_buffers_needed ==
                       (chain_bytes_needed + BufferSize - 1) \div BufferSize
                   chain == IF conn.read_chain.some THEN conn.read_chain
                            ELSE BufferChain_new
                   conns1 == [connections EXCEPT ![conn_id].read_chain = chain]
                   to_alloc == chain_buffers_needed - Len(chain.buffers)
               IN
               IF result.value_len > MaxValueSize THEN Close(connections, pool1)
               ELSE IF Len(chain.buffers) >= chain_buffers_needed
               THEN /\ connections' = [conns1 EXCEPT
                          ![conn_id].data_state = reading_with(total_filled)]
                    /\ buffers' = pool1
                    /\ sockets' = taken
               ELSE IF ~alloc_many_some(pool1, to_alloc) THEN Close(conns1, pool1)
               ELSE /\ connections' = [conns1 EXCEPT
                          ![conn_id].read_chain =
                              push_buffers(chain, alloc_many_indices(pool1, to_alloc)),
                          ![conn_id].data_state = reading_with(total_filled)]
                    /\ buffers' = alloc_many_pool(pool1, to_alloc)
                    /\ sockets' = taken
         [] result.kind = "Response" ->
               /\ connections' = [conns3 EXCEPT
                      ![conn_id].data_state =
                          writing(write_buf_idx, Len(result.response))]
               /\ buffers' = copy_from_slice(pool3, write_buf_idx, 0, result.response)
               /\ sockets' = taken
         [] result.kind = "LargeResponse" ->
               \E appended \in {append(BufferChain_new, result.response, pool3)} :
                   IF ~appended.ok
                   THEN Close(conns3, release(appended.chain, appended.pool))
                   ELSE /\ connections' = [conns3 EXCEPT
                              ![conn_id].write_chain = appended.chain,
                              ![conn_id].data_state =
                                  writing(usize_MAX, appended.chain.len)]
                        /\ buffers' = appended.pool
                        /\ sockets' = taken
         [] result.kind \in {"Quit", "Error"} -> Close(connections, pool1)
    /\ UNCHANGED accepted
    /\ MioFrame

\* handle_connection_event for a writable event of conn_id, with the
\* close_connection of worker_loop on an error.
handle_writable(conn_id) ==
    /\ conn_id \in DOMAIN connections
    /\ connections[conn_id].data_state.state = "Writing"
    /\ LET conn == connections[conn_id]
           fd == conn.stream
           write_buf_idx == conn.data_state.buf_idx
           written == conn.data_state.written
           total == conn.data_state.total
           from_chain == write_buf_idx = usize_MAX
           \* the bytes handed to write or write_vectored
           slices == IF from_chain
                     THEN io_slices(conn.write_chain, buffers, written)
                     ELSE SubSeq(buffers.buffers[write_buf_idx], written + 1, total)
           results == IF from_chain /\ slices = <<>> THEN {0}
                      ELSE WriteResults(Len(slices))
           Close ==
               LET closed == mio_close_connection(connections, buffers, conn_id)
               IN  /\ connections' = closed.connections
                   /\ buffers' = closed.buffers
                   /\ sockets' = [sockets EXCEPT ![fd] = Closed(@)]
       IN
       \E n \in results :
       IF from_chain /\ ~conn.write_chain.some THEN Close
       ELSE IF n < 0 \/ (n = 0 /\ ~(from_chain /\ slices = <<>>)) THEN Close
       ELSE
       LET new_written == written + n
       IN  /\ sockets' = [sockets EXCEPT ![fd].sent = @ \o SubSeq(slices, 1, n)]
           /\ IF new_written >= total
              THEN \* Write complete - release chain if used, go back to
                   \* reading
                   /\ buffers' = IF conn.write_chain.some
                                 THEN release(conn.write_chain, buffers)
                                 ELSE buffers
                   /\ connections' = [connections EXCEPT
                          ![conn_id].write_chain = NoChain,
                          ![conn_id].data_state = reading]
              ELSE \* Partial write, continue
                   /\ connections' = [connections EXCEPT
                          ![conn_id].data_state.written = new_written]
                   /\ UNCHANGED buffers
    /\ UNCHANGED accepted
    /\ MioFrame

(* ------------------- RESP frames (resp/parser.rs) -------------------- *)

\* A byte that occurs in no UTF-8 text (0xFF).
Invalid == "FF"

\* std::str::from_utf8 succeeds on the bytes.
from_utf8(bytes) == \A i \in DOMAIN bytes : bytes[i] # Invalid

\* The largest i64, at the width the model gives the machine word.
I64Max == U64Modulus \div 2 - 1

IsDigit(byte) == \E d \in 0 .. 9 : ToString(d) = byte
DigitValue(byte) == CHOOSE d \in 0 .. 9 : ToString(d) = byte

RECURSIVE DigitsValue(_)
DigitsValue(digits) ==
    IF digits = <<>> THEN 0
    ELSE 10 * DigitsValue(SubSeq(digits, 1, Len(digits) - 1))
         + DigitValue(digits[Len(digits)])

\* str::parse::<i64>: an optional sign, then one digit or more, and the
\* number must fit.
i64_from_str(s) ==
    LET signed == s # <<>> /\ s[1] \in {"+", "-"}
        digits == IF signed THEN Tail(s) ELSE s
        n == IF signed /\ s[1] = "-"
             THEN 0 - DigitsValue(digits) ELSE DigitsValue(digits)
    IN  IF digits = <<>> \/ \E i \in DOMAIN digits : ~IsDigit(digits[i])
        THEN [ok |-> FALSE, n |-> 0]
        ELSE IF n > I64Max \/ n < 0 - I64Max - 1
        THEN [ok |-> FALSE, n |-> 0]
        ELSE [ok |-> TRUE, n |-> n]

\* i64::to_string and usize::to_string, as bytes.
RECURSIVE i64_to_string(_)
i64_to_string(n) ==
    IF n < 0 THEN <<"-">> \o i64_to_string(0 - n)
    ELSE IF n < 10 THEN <<ToString(n)>>
    ELSE Append(i64_to_string(n \div 10), ToString(n % 10))

\* enum Frame.  s holds the text of Simple and Error and the data of
\* Bulk(Some), n the number of Integer, frames the elements of Array(Some);
\* some is FALSE for Bulk(None) and Array(None).
Frame(type, some, s, n, frames) ==
    [type |-> type, some |-> some, s |-> s, n |-> n, frames |-> frames]
Frame_Simple(s) == Frame("Simple", TRUE, s, 0, <<>>)
Frame_Error(s) == Frame("Error", TRUE, s, 0, <<>>)
Frame_Integer(n) == Frame("Integer", TRUE, <<>>, n, <<>>)
Frame_Bulk_None == Frame("Bulk", FALSE, <<>>, 0, <<>>)
Frame_Bulk_Some(bytes) == Frame("Bulk", TRUE, bytes, 0, <<>>)
Frame_Array_None == Frame("Array", FALSE, <<>>, 0, <<>>)
Frame_Array_Some(frames) == Frame("Array", TRUE, <<>>, 0, frames)

\* Frame::encode_into: the bytes buf holds afterwards.
RECURSIVE encode_into(_, _)
encode_into(frame, buf) ==
    LET RECURSIVE each(_, _)
        each(frames, out) ==
            IF frames = <<>> THEN out
            ELSE each(Tail(frames), encode_into(Head(frames), out))
    IN
    CASE frame.type = "Simple" -> buf \o <<"+">> \o frame.s \o <<CR, LF>>
      [] frame.type = "Error" -> buf \o <<"-">> \o frame.s \o <<CR, LF>>
      [] frame.type = "Integer" ->
            buf \o <<":">> \o i64_to_string(frame.n) \o <<CR, LF>>
      [] frame.type = "Bulk" /\ ~frame.some -> buf \o <<"$", "-", "1", CR, LF>>
      [] frame.type = "Bulk" /\ frame.some ->
            buf \o <<"$">> \o i64_to_string(Len(frame.s)) \o <<CR, LF>>
                \o frame.s \o <<CR, LF>>
      [] frame.type = "Array" /\ ~frame.some -> buf \o <<"*", "-", "1", CR, LF>>
      [] frame.type = "Array" /\ frame.some ->
            each(frame.frames,
                 buf \o <<"*">> \o i64_to_string(Len(frame.frames)) \o <<CR, LF>>)

\* enum ParseResult; the message of Error is not kept.
ParseResult_Complete(frame, consumed) ==
    [kind |-> "Complete", frame |-> frame, consumed |-> consumed]
ParseResult_Incomplete ==
    [kind |-> "Incomplete", frame |-> Frame_Bulk_None, consumed |-> 0]
ParseResult_Error ==
    [kind |-> "Error", frame |-> Frame_Bulk_None, consumed |-> 0]

\* parse_simple_string: +OK\r\n
parse_simple_string(buffer) ==
    LET end == find_crlf(buffer)
    IN  IF end = NoCrlf THEN ParseResult_Incomplete
        ELSE IF ~from_utf8(SubSeq(buffer, 2, end)) THEN ParseResult_Error
        ELSE ParseResult_Complete(Frame_Simple(SubSeq(buffer, 2, end)), end + 2)

\* parse_error: -ERR message\r\n
parse_error(buffer) ==
    LET end == find_crlf(buffer)
    IN  IF end = NoCrlf THEN ParseResult_Incomplete
        ELSE IF ~from_utf8(SubSeq(buffer, 2, end)) THEN ParseResult_Error
        ELSE ParseResult_Complete(Frame_Error(SubSeq(buffer, 2, end)), end + 2)

\* parse_integer: :1000\r\n
parse_integer(buffer) ==
    LET end == find_crlf(buffer)
        s == SubSeq(buffer, 2, end)
    IN  IF end = NoCrlf THEN ParseResult_Incomplete
        ELSE IF ~from_utf8(s) THEN ParseResult_Error
        ELSE IF ~i64_from_str(s).ok THEN ParseResult_Error
        ELSE ParseResult_Complete(Frame_Integer(i64_from_str(s).n), end + 2)

\* Fault injection for C29: a bulk string that ends at the first "\r\n" of
\* its data, whatever its length says.
parse_bulk_string_by_line(buffer) ==
    LET len_end == find_crlf(buffer)
        rest == SubSeq(buffer, len_end + 3, Len(buffer))
        data_len == find_crlf(rest)
    IN  IF len_end = NoCrlf THEN ParseResult_Incomplete
        ELSE IF ~i64_from_str(SubSeq(buffer, 2, len_end)).ok THEN ParseResult_Error
        ELSE IF i64_from_str(SubSeq(buffer, 2, len_end)).n < 0
        THEN ParseResult_Complete(Frame_Bulk_None, len_end + 2)
        ELSE IF data_len = NoCrlf THEN ParseResult_Incomplete
        ELSE ParseResult_Complete(Frame_Bulk_Some(SubSeq(rest, 1, data_len)),
                                  len_end + 2 + data_len + 2)

\* parse_bulk_string: $5\r\nhello\r\n or $-1\r\n
parse_bulk_string(buffer) ==
    LET len_end == find_crlf(buffer)
        len_str == SubSeq(buffer, 2, len_end)
        len == i64_from_str(len_str).n
        data_start == len_end + 2
        data_end == data_start + len
        total_len == data_end + 2
    IN  IF len_end = NoCrlf THEN ParseResult_Incomplete
        ELSE IF ~from_utf8(len_str) THEN ParseResult_Error
        ELSE IF ~i64_from_str(len_str).ok THEN ParseResult_Error
        ELSE IF len < 0 THEN ParseResult_Complete(Frame_Bulk_None, len_end + 2)
        ELSE IF Len(buffer) < total_len THEN ParseResult_Incomplete
        ELSE IF buffer[data_end + 1] # CR \/ buffer[data_end + 2] # LF
        THEN ParseResult_Error
        ELSE ParseResult_Complete(
                 Frame_Bulk_Some(SubSeq(buffer, data_start + 1, data_end)),
                 total_len)

\* parse: the frame at the start of the buffer, by its first byte.
\* parse_array (*2\r\n... or *-1\r\n) parses its elements one after the
\* other from the offset the one before ended at.
RECURSIVE resp_parser_parse(_)
resp_parser_parse(buffer) ==
    LET RECURSIVE elements(_, _, _)
        elements(len, offset, frames) ==
            IF len = 0
            THEN ParseResult_Complete(Frame_Array_Some(frames), offset)
            ELSE IF offset >= Len(buffer) THEN ParseResult_Incomplete
            ELSE LET parsed ==
                         resp_parser_parse(SubSeq(buffer, offset + 1, Len(buffer)))
                 IN  IF parsed.kind = "Complete"
                     THEN elements(len - 1, offset + parsed.consumed,
                                   Append(frames, parsed.frame))
                     ELSE parsed
        parse_array ==
            LET len_end == find_crlf(buffer)
                len_str == SubSeq(buffer, 2, len_end)
                len == i64_from_str(len_str).n
            IN  IF len_end = NoCrlf THEN ParseResult_Incomplete
                ELSE IF ~from_utf8(len_str) THEN ParseResult_Error
                ELSE IF ~i64_from_str(len_str).ok THEN ParseResult_Error
                ELSE IF len < 0
                THEN ParseResult_Complete(Frame_Array_None, len_end + 2)
                ELSE elements(len, len_end + 2, <<>>)
    IN
    IF buffer = <<>> THEN ParseResult_Incomplete
    ELSE CASE buffer[1] = "+" -> parse_simple_string(buffer)
           [] buffer[1] = "-" -> parse_error(buffer)
           [] buffer[1] = ":" -> parse_integer(buffer)
           [] buffer[1] = "$" -> parse_bulk_string(buffer)
           [] buffer[1] = "*" -> parse_array
           [] OTHER -> ParseResult_Error

\* Worker w parses a buffer a client sent.
call_parse(w) ==
    /\ pc[w] = "idle"
    /\ \E buffer \in inputs.wires :
          Call(w, "parsed", [op |-> "round_trip", key |-> "", input |-> buffer,
                             parsed |-> resp_parser_parse(buffer),
                             encoded |-> <<>>,
                             reparsed |-> NoParse])
    /\ UNCHANGED <<store, config, uring, net, now, locks, hist>>

\* Worker w encodes the frame it parsed (Frame::encode); a buffer that
\* held no frame ends the call.
call_encode(w) ==
    /\ pc[w] = "parsed"
    /\ IF loc[w].parsed.kind = "Complete"
       THEN Goto(w, "encoded", [encoded |-> encode_into(loc[w].parsed.frame, <<>>)])
       ELSE Goto(w, "done", [res |-> loc[w].parsed.kind])
    /\ UNCHANGED <<store, config, uring, net, now, locks, hist>>

\* Worker w parses the bytes it encoded.
call_reparse(w) ==
    /\ pc[w] = "encoded"
    /\ Goto(w, "done", [reparsed |-> resp_parser_parse(loc[w].encoded)])
    /\ UNCHANGED <<store, config, uring, net, now, locks, hist>>

\* A line of RESP: the type byte, the text, "\r\n".
Line(type, text) == <<type>> \o text \o <<CR, LF>>

\* Texts of simple strings and errors, numbers as to_string writes them, and
\* data of bulk strings: empty, holding "\r\n", holding a byte that is no
\* text, and long enough for a length of two digits.
Texts == {<<>>, <<"O", "K">>, <<"a", CR>>, <<LF, "b">>}
Decimals == {<<"0">>, <<"7">>, <<"-", "1">>, <<"1", "0">>, <<"-", "4", "2">>}
Datas ==
    {<<>>, <<"a">>, <<CR, LF>>, <<Invalid, "+">>,
     <<"a", "b", "a", "b", "a", "b", "a", "b", "a", "b", "a">>}

\* The frames of RESP2 in their canonical encoding, written out after the
\* grammar: scalars, arrays of scalars, arrays of arrays.
Scalars ==
    {Line("+", s) : s \in Texts} \cup {Line("-", s) : s \in Texts}
    \cup {Line(":", d) : d \in Decimals}
    \cup {Line("$", <<"-", "1">>), Line("*", <<"-", "1">>)}
    \cup {Line("$", <<"0">>) \o <<CR, LF>>,
          Line("$", <<"1">>) \o <<"a", CR, LF>>,
          Line("$", <<"2">>) \o <<CR, LF, CR, LF>>,
          Line("$", <<"2">>) \o <<Invalid, "+", CR, LF>>,
          Line("$", <<"1", "1">>)
              \o <<"a", "b", "a", "b", "a", "b", "a", "b", "a", "b", "a", CR, LF>>}
Pairs ==
    {Line("+", <<"O", "K">>), Line(":", <<"-", "1">>), Line("$", <<"-", "1">>),
     Line("$", <<"2">>) \o <<CR, LF, CR, LF>>}
Arrays ==
    {Line("*", <<"0">>)} \cup {Line("*", <<"1">>) \o x : x \in Scalars}
    \cup {Line("*", <<"2">>) \o x \o y : x \in Pairs, y \in Pairs}
Nested ==
    {Line("*", <<"1">>) \o x : x \in Arrays}
    \cup {Line("*", <<"2">>) \o Line("*", <<"1">>) \o x \o y :
             x \in Pairs, y \in Pairs}
CanonicalFrames == Scalars \cup Arrays \cup Nested

\* Frames the parser accepts in another spelling, or followed by the start
\* of the next frame.
OtherSpellings ==
    {Line(":", <<"+", "7">>), Line(":", <<"0", "7">>), Line(":", <<"-", "0">>),
     Line("$", <<"-", "2">>), Line("*", <<"-", "4", "2">>),
     Line("$", <<"0", "1">>) \o <<"a", CR, LF>>,
     Line("*", <<"+", "1">>) \o Line(":", <<"0", "0">>)}
    \cup {x \o <<"+", "O">> : x \in Pairs}
    \cup {x \o y : x \in Pairs, y \in Pairs}

\* Buffers that hold no frame: not all of it has arrived, or it is not RESP.
NoFrames ==
    {<<>>, <<"+", "O">>, <<"x", CR, LF>>, Line(":", <<>>), Line(":", <<"a">>),
     Line(":", <<"-">>), Line(":", <<"9", "9", "9", "9", "9">>),
     Line("+", <<Invalid>>), Line("-", <<Invalid>>), Line(":", <<Invalid>>),
     Line("$", <<Invalid>>), Line("*", <<Invalid>>), Line("$", <<"a">>),
     Line("*", <<"a">>), <<"$", "1">>, <<"*", "1">>,
     Line("$", <<"1">>) \o <<"a", CR>>, Line("$", <<"1">>) \o <<"a", "b", CR, LF>>,
     Line("*", <<"1">>), Line("*", <<"2">>) \o Line(":", <<"1">>),
     Line("*", <<"1">>) \o <<"x", CR, LF>>, Line("*", <<"1">>) \o <<":", "1">>}
RespInputs == CanonicalFrames \cup OtherSpellings \cup NoFrames

(* --------------------------- specifications --------------------------- *)

\* Storage::new with the configuration chosen; the clients use the keys,
\* values and TTLs in input.
InitWith(input) ==
    /\ inputs = input
    /\ data = EmptyMap
    /\ access_order = EmptyMap
    /\ memory_used = 0
    /\ cas_counter = 1
    /\ access_counter = 0
    /\ max_memory \in input.limits
    /\ default_ttl \in input.defaults
    /\ now = 0
    /\ dataLock = Unlocked
    /\ orderLock = Unlocked
    /\ pc = [w \in Workers |-> "idle"]
    /\ loc = [w \in Workers |-> Blank]
    /\ hist = NoHistory
    /\ write_buffers = BufferPool_new(write_pool_size)
    /\ connections = <<>>
    /\ tokens = {Accept}
    /\ accepted = 0
    /\ buffers = BufferPool_new(pool_size)
    /\ sockets = <<>>

Init ==
    InitWith([keys |-> Keys, values |-> SetValues, ttls |-> TtlChoices,
              limits |-> MaxMemoryChoices, defaults |-> {0},
              remember |-> FALSE])

\* The steps of worker w inside Storage::set, with the eviction loop and
\* record_access, and the return of a call.
SetSteps(w) ==
    \/ set_begin(w) \/ set_lock(w) \/ set_insert(w) \/ set_done(w)
    \/ ensure_load(w) \/ find_lru_order(w) \/ find_lru_data(w)
    \/ delete_data(w) \/ delete_order(w)
    \/ record_access_seq(w) \/ record_access_insert(w)
    \/ Return(w)

CasSteps(w) == cas_lock(w) \/ cas_sub(w) \/ cas_relock(w) \/ cas_done(w)

AppendSteps(w) ==
    \/ append_lock(w) \/ append_relock(w) \/ append_extend(w)
    \/ append_account(w) \/ append_done(w)

\* The steps inside the calls of worker w.
Step(w) ==
    \/ SetSteps(w) \/ CasSteps(w) \/ AppendSteps(w)
    \/ get_lock(w) \/ get_clone(w) \/ get_expired(w) \/ get_return(w)
    \/ add_check(w) \/ replace_check(w)
    \/ get_multi_lock(w) \/ get_multi_next(w) \/ get_multi_push(w)
    \/ get_multi_cleanup(w)
    \/ cleanup_expired_scan(w)
    \/ flush_all_data(w) \/ flush_all_order(w)

\* Every call the store and the incr/decr handler offer.
AnyCall(w) ==
    \/ call_get(w) \/ call_get_multi(w) \/ call_set(w) \/ call_add(w)
    \/ call_replace(w) \/ call_cas(w) \/ call_append(w) \/ call_incr_decr(w)
    \/ call_delete(w) \/ call_flush_all(w) \/ call_cleanup_expired(w)

\* Sequential execution: one worker, one call at a time, the clock running.
SeqWorkers == {1}
Next == Tick \/ \E w \in SeqWorkers : AnyCall(w) \/ Step(w)
Spec == Init /\ [][Next]_vars

\* Sequential execution in which the history keeps what each call wrote, for
\* the properties that relate a call to the one before it.
ReadBackSpec ==
    InitWith([keys |-> Keys, values |-> SetValues, ttls |-> TtlChoices,
              limits |-> {76}, defaults |-> {0}, remember |-> TRUE])
    /\ [][Next]_vars

\* Concurrent execution: the workers send one key and one value to a store
\* with the smaller limit, and the steps of their calls interleave in any
\* order.
OneKey ==
    [keys |-> {"bb"}, values |-> {<<1>>}, ttls |-> {0}, limits |-> {76},
     defaults |-> {0}, remember |-> FALSE]

\* Every worker calls set and cas.
CasNext ==
    Tick \/ \E w \in Workers : call_set(w) \/ call_cas(w) \/ SetSteps(w) \/ CasSteps(w)
CasSpec == InitWith(OneKey) /\ [][CasNext]_vars

\* Every worker calls add.
AddNext == Tick \/ \E w \in Workers : call_add(w) \/ add_check(w) \/ SetSteps(w)
AddSpec == InitWith(OneKey) /\ [][AddNext]_vars

\* Every worker calls set; a thread that can take its next step takes it in
\* the end.
LockNext == \E w \in Workers : call_set(w) \/ SetSteps(w)
LockSpec ==
    /\ InitWith(OneKey)
    /\ [][LockNext]_vars
    /\ \A w \in Workers : WF_vars(SetSteps(w))

\* One worker stores under a key whose items may expire while the other
\* reads it.
Writer == CHOOSE w \in Workers : TRUE
Reader == CHOOSE w \in Workers : w # Writer
ExpiryNext ==
    \/ Tick
    \/ call_set(Writer) \/ call_get(Reader)
    \/ \E w \in Workers :
          \/ get_lock(w) \/ get_clone(w) \/ get_expired(w) \/ get_return(w)
          \/ SetSteps(w)
ExpirySpec == InitWith([OneKey EXCEPT !.ttls = TtlChoices]) /\ [][ExpiryNext]_vars

\* Every worker calls the operations that issue CAS tokens.
TokenNext ==
    \E w \in Workers :
        \/ call_set(w) \/ call_cas(w) \/ call_append(w)
        \/ SetSteps(w) \/ CasSteps(w) \/ AppendSteps(w)
TokenSpec == InitWith(OneKey) /\ [][TokenNext]_vars

\* Every worker calls set, incr and decr.  No item expires here, so the
\* branch of get that deletes an expired item is not among the steps.
IncrNext ==
    \E w \in Workers :
        \/ call_set(w) \/ call_incr_decr(w)
        \/ get_lock(w) \/ get_clone(w) \/ get_return(w)
        \/ SetSteps(w)
IncrSpec == InitWith(OneKey) /\ [][IncrNext]_vars

\* Sequential execution on an item that holds the largest u64 in decimal:
\* set, incr, decr and the expiry of the item.
U64MaxDigits == to_string(U64Modulus - 1)
WrapNext ==
    \/ Tick
    \/ \E w \in SeqWorkers :
          \/ call_set(w) \/ call_incr_decr(w)
          \/ get_lock(w) \/ get_clone(w) \/ get_expired(w) \/ get_return(w)
          \/ SetSteps(w)
WrapSpec ==
    InitWith([keys |-> {"a"}, values |-> {U64MaxDigits}, ttls |-> TtlChoices,
              limits |-> {150}, defaults |-> {0}, remember |-> FALSE])
    /\ [][WrapNext]_vars

\* Sequential execution of set and get under either default TTL.
TtlChoicesOfConfig == {0, 1}
TtlNext ==
    \/ Tick
    \/ \E w \in SeqWorkers :
          \/ call_set(w) \/ call_get(w)
          \/ get_lock(w) \/ get_clone(w) \/ get_expired(w) \/ get_return(w)
          \/ SetSteps(w)
TtlSpec ==
    InitWith([keys |-> {"a"}, values |-> SetValues, ttls |-> TtlChoices,
              limits |-> {76}, defaults |-> TtlChoicesOfConfig, remember |-> FALSE])
    /\ [][TtlNext]_vars

\* Sequential execution of set and of RESP SET with its conditions, through
\* the handler and through the dispatcher of the event loops.
RespNext ==
    \/ Tick
    \/ \E w \in SeqWorkers :
          \/ call_set(w)
          \/ RespHandler_execute_set(w) \/ execute_resp_command_set(w)
          \/ add_check(w) \/ replace_check(w)
          \/ SetSteps(w)
RespSpec ==
    InitWith([keys |-> {"a"}, values |-> SetValues, ttls |-> TtlChoices,
              limits |-> {150}, defaults |-> {0}, remember |-> FALSE])
    /\ [][RespNext]_vars

\* One worker parses buffers of RESP, encodes the frames it finds and parses
\* what it encoded.
RespCodecNext ==
    \E w \in SeqWorkers :
        call_parse(w) \/ call_encode(w) \/ call_reparse(w) \/ Return(w)
RespCodecSpec ==
    InitWith(OneKey @@ [wires |-> RespInputs]) /\ [][RespCodecNext]_vars

\* One worker builds chains over the pool, clears them and releases them.
ChainNext ==
    \E w \in SeqWorkers :
        \/ chain_new(w) \/ chain_append(w) \/ chain_clear(w)
        \/ chain_push_buffer(w) \/ chain_release(w) \/ Return(w)
ChainSpec == InitWith(OneKey) /\ [][ChainNext]_vars

\* One io_uring worker: the completions of its ring arrive in any order,
\* with any result the kernel can report.
UringNext ==
    \/ \E fd \in Fds : client_send(fd)
    \/ handle_accept
    \/ \E conn_id \in ConnIds : handle_read(conn_id)
    \/ \E conn_id \in ConnIds, buf_idx \in BufferIdxs :
          handle_write(conn_id, buf_idx)
UringSpec ==
    InitWith(OneKey @@ Traffic({ScriptNoreply, ScriptQuit}, 2, TRUE, FALSE))
    /\ [][UringNext]_vars

\* One io_uring worker whose client sends two requests back to back, with
\* no I/O errors.  Every completion that is ready is handled in the end, and
\* every client sends the whole of its script.
UringPipelineSpec ==
    /\ InitWith(OneKey @@ Traffic({ScriptPipelined}, 1, FALSE, FALSE))
    /\ [][UringNext]_vars
    /\ WF_vars(handle_accept)
    /\ \A fd \in Fds : WF_vars(client_send(fd))
    /\ \A conn_id \in ConnIds :
          /\ WF_vars(handle_read(conn_id))
          /\ \A buf_idx \in BufferIdxs : WF_vars(handle_write(conn_id, buf_idx))

\* One io_uring worker with more clients than max_connections, each sending
\* a get; accepts, reads and writes may fail.
UringLimitSpec ==
    InitWith(OneKey @@ Traffic({ScriptGet}, MaxClients, TRUE, FALSE))
    /\ [][UringNext]_vars

\* One mio worker: the events of its poll arrive in any order, the client
\* sends its script in pieces of any size.  The script is one of: two
\* requests back to back, a delete with noreply and a get, a set of a value
\* larger than a buffer, a set of a value that is too large, a line that is
\* no command and a get.  No I/O errors.
MioNext ==
    \/ \E fd \in Fds : client_send(fd)
    \/ accept_connections
    \/ \E conn_id \in ConnIds : handle_readable(conn_id)
    \/ \E conn_id \in ConnIds : handle_writable(conn_id)
MioRequestSpec ==
    InitWith(OneKey @@ Traffic({ScriptPipelined, ScriptNoreply, ScriptLargeSet,
                                ScriptOversized, ScriptBad}, 1, FALSE, FALSE))
    /\ [][MioNext]_vars

\* One mio worker whose clients send large values, ask for a large item,
\* send a line that is no command, or shut down; reads and writes may fail.
MioPoolNext ==
    \/ MioNext
    \/ \E fd \in Fds : client_shutdown(fd)
MioPoolSpec ==
    InitWith(OneKey @@ Traffic({ScriptLargeGet, ScriptLargeSet, ScriptBad},
                               2, TRUE, TRUE))
    /\ [][MioPoolNext]_vars

(* ============================ properties ============================== *)

\* No call is in progress.
Quiescent == \A w \in Workers : pc[w] \in {"idle", "done"}

\* Worker w has finished a call of one of the operations in ops and has not
\* yet handed the result back.
Returned(w, ops) == pc[w] = "done" /\ loc[w].op \in ops

\* The sum over the items present of key length + item overhead + value length.
RECURSIVE SumFootprint(_, _)
SumFootprint(keys, d) ==
    IF keys = {} THEN 0
    ELSE LET k == CHOOSE x \in keys : TRUE
         IN  footprint(k, d[k]) + SumFootprint(keys \ {k}, d)
Accounted == SumFootprint(DOMAIN data, data)

\* The item's expiration instant is t or earlier.
Past(item, t) == item.expires_at # NoExpiry /\ item.expires_at <= t

\* The key was present and already expired when worker w's call began.
ExpiredAtCall(w, k) ==
    /\ k \in DOMAIN loc[w].preData
    /\ Past(loc[w].preData[k], loc[w].preNow)

\* The key was present when worker w's call began and the item it held then
\* has not expired even now.
LiveThroughout(w, k) ==
    /\ k \in DOMAIN loc[w].preData
    /\ ~Past(loc[w].preData[k], now)

StoreOps == {"set", "add", "replace", "cas", "append", "prepend"}

\* C1: whenever no call is in progress, stats().memory_used equals the sum of
\* the footprints of the items in the data map.
C1_MemoryUsedIsSum == Quiescent => stats.memory_used = Accounted

\* C5: after set, add, replace, cas, append or prepend returns Stored,
\* stats().memory_used is at most max_memory unless the call's eviction found
\* no key left to evict.
C5_WithinLimitAfterStored ==
    \A w \in Workers :
        Returned(w, StoreOps) /\ loc[w].res = "Stored" =>
            stats.memory_used <= max_memory \/ loc[w].exhausted

\* C6: an item already expired when the call began is neither returned nor
\* updated.
C6_ExpiredNeverServed ==
    \A w \in Workers :
        pc[w] = "done" =>
            /\ loc[w].op = "get" /\ ExpiredAtCall(w, loc[w].key)
                  => loc[w].res = "None" /\ loc[w].got = NoItem
            /\ loc[w].op = "get_multi"
                  => \A i \in DOMAIN loc[w].results :
                        ~ExpiredAtCall(w, loc[w].results[i][1])
            /\ loc[w].op = "cas" /\ ExpiredAtCall(w, loc[w].key)
                  => loc[w].res = "NotFound"
            /\ loc[w].op \in {"append", "prepend"} /\ ExpiredAtCall(w, loc[w].key)
                  => loc[w].res = "NotStored"
            /\ loc[w].op \in {"incr", "decr"} /\ ExpiredAtCall(w, loc[w].key)
                  => loc[w].res = "NOT_FOUND"

\* incr or decr found its key expired and answered NOT_FOUND.
C6_IncrOnExpiredNotFound ==
    \E w \in Workers :
        /\ Returned(w, {"incr", "decr"})
        /\ ExpiredAtCall(w, loc[w].key)
        /\ loc[w].res = "NOT_FOUND"

\* The keys worker w's call looks up.
KeysOf(w) ==
    IF loc[w].op = "get_multi"
    THEN {loc[w].keys[i] : i \in DOMAIN loc[w].keys}
    ELSE {loc[w].key}

\* C7: a call that found its key expired has removed that item from the data
\* map when it returns.
C7_ExpiredRemovedOnReturn ==
    \A w \in Workers :
        Returned(w, {"get", "get_multi", "add", "replace", "cas", "append", "prepend"}) =>
            \A k \in KeysOf(w) :
                ExpiredAtCall(w, k) =>
                    k \notin DOMAIN data \/ data[k] # loc[w].preData[k]

\* C8: whenever no call is in progress, the data map and the access-order map
\* have the same keys.
C8_SameKeys == Quiescent => DOMAIN data = DOMAIN access_order

\* C9: append/prepend on a key that is present and stays live returns Stored,
\* Stored is returned only for a key present and live at the call, and the
\* value is then the old one extended.
C9_AppendStoredIffLive ==
    \A w \in Workers :
        Returned(w, {"append", "prepend"}) =>
            LET k == loc[w].key
            IN  /\ LiveThroughout(w, k) => loc[w].res = "Stored"
                /\ loc[w].res = "Stored" =>
                      /\ k \in DOMAIN loc[w].preData
                      /\ ~ExpiredAtCall(w, k)
                      /\ k \in DOMAIN data
                      /\ data[k].value =
                            extended(loc[w].op, loc[w].preData[k].value, loc[w].value)

\* Worker w's eviction loop has chosen a victim and is about to delete it.
Evicting(w) == pc[w] = "delete_data" /\ loc[w].dcont = "ensure_load"

\* The keys present and not expired when worker w's find_lru_key ran.
LiveAtFind(w) == {k \in DOMAIN data : ~Past(data[k], loc[w].tfind)}

\* Position of key k in the history of uses (least recently used first).
UseRank(k) == CHOOSE i \in DOMAIN hist.uses : hist.uses[i] = k

\* The victim is the least recently used of the keys in S.
VictimIsLeastRecent(w, S) ==
    /\ loc[w].victim \in S
    /\ \A k \in S : UseRank(loc[w].victim) <= UseRank(k)

\* C10: every evicted key is, among the keys present and not expired, the
\* least recently used one.
C10_VictimIsLruOfLive ==
    \A w \in Workers : Evicting(w) => VictimIsLeastRecent(w, LiveAtFind(w))

\* C10 as the code has it: every evicted key is the least recently used of
\* the keys present and not expired when there is one, and otherwise some key
\* of the data map (all are expired).
C10_VictimIsLruOfLiveOrAnyExpired ==
    \A w \in Workers :
        Evicting(w) =>
            IF LiveAtFind(w) # {}
            THEN VictimIsLeastRecent(w, LiveAtFind(w))
            ELSE loc[w].victim \in DOMAIN data

\* The eviction chose between two live keys, and the one it evicts was
\* stored last but used least recently.
C10_EvictsOlderUseOfTwoLive ==
    \E w \in Workers :
        /\ Evicting(w)
        /\ Cardinality(LiveAtFind(w)) >= 2
        /\ \E k \in LiveAtFind(w) \ {loc[w].victim} :
              data[k].cas_unique < data[loc[w].victim].cas_unique

\* C2: among concurrent cas calls on the same key that all present the token
\* the item holds, at most one returns Stored.
C2_AtMostOneCasStored ==
    \A w1, w2 \in Workers :
        (/\ w1 # w2
         /\ Returned(w1, {"cas"}) /\ Returned(w2, {"cas"})
         /\ loc[w1].key = loc[w2].key
         /\ loc[w1].token = loc[w2].token
         /\ loc[w1].overlap \/ loc[w2].overlap
         /\ \A w \in {w1, w2} :
               /\ loc[w].key \in DOMAIN loc[w].preData
               /\ loc[w].token = loc[w].preData[loc[w].key].cas_unique)
        => ~(loc[w1].res = "Stored" /\ loc[w2].res = "Stored")

\* C3: no two item versions ever stored carry the same CAS token, and every
\* token is a positive integer.
C3_TokensUniqueAndPositive ==
    /\ ~hist.dup
    /\ \A t \in hist.tokens : t > 0
    /\ \A k \in DOMAIN data : data[k].cas_unique \in hist.tokens

\* Two workers issued tokens to items of calls that overlapped, and both
\* items were stored.
C3_TwoTokensIssuedConcurrently ==
    /\ Cardinality(hist.tokens) >= 3
    /\ \A w \in Workers : pc[w] = "done" /\ loc[w].res = "Stored"
    /\ \E w \in Workers : loc[w].overlap

\* C4: when two workers concurrently call add on the same absent key,
\* exactly one of the two calls returns Stored.
C4_ExactlyOneAddStored ==
    \A w1, w2 \in Workers :
        (/\ w1 # w2
         /\ Returned(w1, {"add"}) /\ Returned(w2, {"add"})
         /\ loc[w1].key = loc[w2].key
         /\ loc[w1].overlap \/ loc[w2].overlap
         /\ \A w \in {w1, w2} : loc[w].key \notin DOMAIN loc[w].preData)
        => (loc[w1].res = "Stored") # (loc[w2].res = "Stored")

\* The key was absent when worker w's call began.
AbsentAtCall(w, k) == k \notin DOMAIN loc[w].preData

\* The token worker w's cas presents is the one the item held at the call.
TokenMatches(w) ==
    /\ loc[w].key \in DOMAIN loc[w].preData
    /\ loc[w].preData[loc[w].key].cas_unique = loc[w].token

RefusedUnchanged(w) ==
    /\ pc'[w] = "done" /\ loc'[w].res = "NotStored"
    /\ data' = data
    /\ stats' = stats

\* C12: add on a present live key returns NotStored and leaves the item, the
\* item count and memory_used unchanged; replace on an absent key returns
\* NotStored and creates no item.
C12_RefusedStoreChangesNothing ==
    [][\A w \in SeqWorkers :
          LET k == loc[w].key
          IN  /\ (/\ pc[w] = "add" /\ pc'[w] # "add"
                  /\ k \in DOMAIN data /\ ~Past(data[k], now))
                 => RefusedUnchanged(w)
              /\ (/\ pc[w] = "replace" /\ pc'[w] # "replace"
                  /\ k \notin DOMAIN data)
                 => RefusedUnchanged(w)]_vars

\* An add was refused on a key that was present and live, and the item is
\* the one the call found.
C12_AddRefusedOnLiveKey ==
    \E w \in SeqWorkers :
        /\ Returned(w, {"add"}) /\ loc[w].res = "NotStored"
        /\ LiveThroughout(w, loc[w].key)
        /\ data = loc[w].preData

\* The operations that write an item.
UpdatingOps == {"set", "add", "replace", "cas", "append", "prepend", "incr", "decr"}

\* C13: an item in the data map changes, or appears, only in a call of set,
\* add, replace, cas, append, prepend, incr or decr, and then with a CAS token
\* that no item version stored before carried; under get, get_multi and
\* refused calls every item keeps its token.
C13_TokenChangesOnlyWithUpdate ==
    [][\A k \in DOMAIN data' :
          \/ k \in DOMAIN data /\ data'[k] = data[k]
          \/ /\ data'[k].cas_unique \notin hist.tokens
             /\ \E w \in SeqWorkers : loc[w].op \in UpdatingOps /\ loc[w].key = k]_vars

\* set(k, v) on a key holding v already returned Stored and the item carries
\* another token than before.
C13_SecondSetNewToken ==
    \E w \in SeqWorkers :
        LET k == loc[w].key
        IN  /\ Returned(w, {"set"}) /\ loc[w].res = "Stored"
            /\ k \in DOMAIN loc[w].preData /\ k \in DOMAIN data
            /\ loc[w].preData[k].value = data[k].value
            /\ loc[w].preData[k].cas_unique # data[k].cas_unique

\* C14: a get that directly follows the same caller's set, add, replace, cas,
\* append, prepend, incr or decr on the same key, that call having returned
\* Stored (a number for incr/decr) and the item not having expired since,
\* returns the value that call wrote.
C14_GetReturnsValueJustWritten ==
    \A w \in SeqWorkers :
        LET k == loc[w].key
            last == hist.last[w]
        IN  (/\ Returned(w, {"get"})
             /\ last.wrote /\ last.key = k
             /\ ~(k \in DOMAIN loc[w].preData /\ Past(loc[w].preData[k], now)))
            => loc[w].res = "Some" /\ loc[w].got.value = last.value

\* A get read back the digits an incr or decr had just written.
C14_GetAfterIncr ==
    \E w \in SeqWorkers :
        /\ Returned(w, {"get"}) /\ loc[w].res = "Some"
        /\ hist.last[w].wrote /\ hist.last[w].key = loc[w].key
        /\ loc[w].got.value = hist.last[w].value
        /\ loc[w].got.value \notin SetValues
        /\ Len(loc[w].got.value) = 1

\* C15: after flush_all returns the store holds no items, stats() reports
\* item_count = 0 and memory_used = 0, the next CAS token is greater than
\* every token stored before, and a get on the empty store returns None.
C15_FlushAllEmptiesKeepsCounter ==
    \A w \in SeqWorkers :
        /\ Returned(w, {"flush_all"}) =>
              /\ data = EmptyMap
              /\ stats.item_count = 0 /\ stats.memory_used = 0
              /\ \A t \in hist.tokens : stats.cas_counter > t
        /\ Returned(w, {"get"}) /\ loc[w].preData = EmptyMap =>
              loc[w].res = "None"

\* flush_all returned on a store that held an item.
C15_FlushedNonEmptyStore ==
    \E w \in SeqWorkers :
        /\ Returned(w, {"flush_all"})
        /\ loc[w].preData # EmptyMap
        /\ hist.tokens # {}
        /\ data = EmptyMap

\* C16: delete on a key of the data map returns Deleted and removes the key;
\* delete on a key that is not there (a second delete) returns NotFound and
\* leaves both maps and the counters as they were.
C16_DeleteThenNotFound ==
    [][\A w \in SeqWorkers :
          LET k == loc[w].key
          IN  /\ (/\ loc[w].op = "delete"
                  /\ pc[w] = "delete_data" /\ pc'[w] # "delete_data")
                 => IF k \in DOMAIN data
                    THEN loc'[w].res = "Deleted" /\ k \notin DOMAIN data'
                    ELSE /\ pc'[w] = "done" /\ loc'[w].res = "NotFound"
                         /\ data' = data /\ access_order' = access_order
                         /\ stats' = stats
              /\ (/\ loc[w].op = "delete"
                  /\ pc[w] # "done" /\ pc'[w] = "done"
                  /\ loc'[w].res = "Deleted")
                 => k \notin DOMAIN data' /\ k \notin DOMAIN access_order']_vars

\* A delete found its key gone after items had been stored, and returned
\* NotFound.
C16_DeleteOfAbsentKey ==
    \E w \in SeqWorkers :
        /\ Returned(w, {"delete"}) /\ loc[w].res = "NotFound"
        /\ loc[w].key \notin DOMAIN loc[w].preData
        /\ hist.tokens # {}
        /\ data = loc[w].preData

\* C17: two concurrent incr by d on an item holding v, with no other writer,
\* leave v + 2d in the store and answer with two distinct numbers.
C17_ConcurrentIncrNotLost ==
    \A w1, w2 \in Workers :
        LET k == loc[w1].key
        IN  (/\ w1 # w2
             /\ Returned(w1, {"incr"}) /\ Returned(w2, {"incr"})
             /\ loc[w2].key = k
             /\ loc[w1].overlap \/ loc[w2].overlap
             /\ loc[w1].res = "Numeric" /\ loc[w2].res = "Numeric"
             /\ k \in DOMAIN loc[w1].preData /\ k \in DOMAIN loc[w2].preData
             /\ loc[w1].preData[k] = loc[w2].preData[k])
            => /\ loc[w1].num # loc[w2].num
               /\ k \in DOMAIN data
               /\ data[k].value =
                     to_string(wrapping_add(parse_u64(loc[w1].preData[k].value),
                                            loc[w1].delta + loc[w2].delta))

EffectiveTtl(ttl) == IF ttl = 0 THEN default_ttl ELSE ttl

\* C19: the item a set stores never expires when its ttl and the default TTL
\* are both 0, and otherwise expires ttl seconds (the default TTL for ttl = 0)
\* after the set built it; a get finds an item whose expiration instant lies
\* ahead and finds none once that instant is reached.
C19_ExpiryFollowsTtl ==
    \A w \in SeqWorkers :
        LET k == loc[w].key
        IN  /\ Returned(w, {"set"}) /\ k \in DOMAIN data =>
                  IF EffectiveTtl(loc[w].ttl) = 0
                  THEN data[k].expires_at = NoExpiry
                  ELSE \E t \in loc[w].preNow..now :
                          data[k].expires_at = t + EffectiveTtl(loc[w].ttl)
            /\ Returned(w, {"get"}) /\ k \in DOMAIN loc[w].preData =>
                  /\ ~Past(loc[w].preData[k], now) =>
                        loc[w].res = "Some" /\ loc[w].got = loc[w].preData[k]
                  /\ Past(loc[w].preData[k], loc[w].preNow) => loc[w].res = "None"

\* A set with ttl = 0 under a default TTL of one second stored an item that
\* expires.
C19_DefaultTtlApplied ==
    \E w \in SeqWorkers :
        /\ Returned(w, {"set"}) /\ loc[w].ttl = 0 /\ default_ttl = 1
        /\ loc[w].key \in DOMAIN data
        /\ data[loc[w].key].expires_at # NoExpiry

\* The indices on the pool's free list.
FreeIdxs == {write_buffers.free_list[i] : i \in DOMAIN write_buffers.free_list}

\* The indices the connections hold: the buf_idx of a connection in Writing
\* and every accumulation buffer.
HeldIdxs ==
    {connections[c].phase.buf_idx :
        c \in {d \in DOMAIN connections : connections[d].phase.state = "Writing"}}
    \cup {connections[c].read_buf_idx :
        c \in {d \in DOMAIN connections : connections[d].read_buf_idx # NoBuffer}}

\* C20: in the io_uring worker no buffer index appears twice on the free
\* list, and no index on the free list is the buf_idx of a connection in
\* Writing or the accumulation buffer of a connection.
C20_FreeListDisjointFromHeld ==
    /\ \A i, j \in DOMAIN write_buffers.free_list :
          i # j => write_buffers.free_list[i] # write_buffers.free_list[j]
    /\ FreeIdxs \cap HeldIdxs = {}

\* The indices the connections of the mio worker hold, one entry for every
\* time an index is held: the read buffer, the write buffer and the buffers
\* of both chains of every connection.
RECURSIVE MioHeldOf(_)
MioHeldOf(conn_ids) ==
    IF conn_ids = {} THEN <<>>
    ELSE LET c == CHOOSE d \in conn_ids : TRUE
             conn == connections[c]
         IN  <<conn.read_buf_idx, conn.write_buf_idx>>
             \o conn.read_chain.buffers \o conn.write_chain.buffers
             \o MioHeldOf(conn_ids \ {c})
MioHeld == MioHeldOf(DOMAIN connections)

\* C21: in the mio worker every buffer of the pool is at every moment either
\* once on the free list or held once by one registered connection, whatever
\* way connections ended; with no connection registered the whole pool is
\* free.
C21_MioBuffersReturnedOnce ==
    LET owned == buffers.free_list \o MioHeld
    IN  /\ Len(owned) = pool_size
        /\ {owned[i] : i \in DOMAIN owned} = PoolIdxs
        /\ connections = <<>> => Len(buffers.free_list) = pool_size

\* Connections have ended, one of them in the middle of writing a large
\* response from a chain, and none is registered any more.
C21_ClosedWhileWritingChain ==
    /\ connections = <<>>
    /\ accepted = inputs.clients
    /\ \E fd \in DOMAIN sockets :
          /\ sockets[fd].script = ScriptLargeGet
          /\ sockets[fd].closed
          /\ sockets[fd].sent # <<>>
          /\ Len(sockets[fd].sent) < Len(Response_value_large)
    /\ \E fd \in DOMAIN sockets :
          sockets[fd].script = ScriptLargeSet /\ sockets[fd].closed

\* The number of response lines among the bytes a client has received.
Answers(sent) == Cardinality({i \in DOMAIN sent : sent[i] = LF})

\* What is left of the bytes of a script after its first count requests.
RECURSIVE AfterRequests(_, _)
AfterRequests(bytes, count) ==
    IF count = 0 \/ find_crlf(bytes) = NoCrlf THEN bytes
    ELSE AfterRequests(SubSeq(bytes, find_crlf(bytes) + 3, Len(bytes)), count - 1)

\* The bytes of its script the client behind a socket has not sent yet.
Unsent(socket) == SubSeq(socket.script, socket.pos + 1, Len(socket.script))

\* C22: in the mio worker no byte read from a connection is discarded: when
\* a connection is in Reading, the bytes in its read buffer, the bytes on
\* the wire and the bytes the client has yet to send are together the
\* requests that have not been answered, so every request is answered in
\* arrival order.
C22_MioUnconsumedBytesKept ==
    \A c \in DOMAIN connections :
        LET conn == connections[c]
            socket == sockets[conn.stream]
        IN  (socket.script = ScriptPipelined /\ conn.data_state.state = "Reading") =>
                SubSeq(buffers.buffers[conn.read_buf_idx], 1, conn.data_state.filled)
                    \o socket.wire \o Unsent(socket)
                = AfterRequests(socket.script, Answers(socket.sent))

\* The client behind fd has sent the whole of its script, and the worker has
\* answered every request of it.
AllSent(fd) ==
    /\ fd \in DOMAIN sockets
    /\ ~sockets[fd].closed
    /\ sockets[fd].pos = Len(sockets[fd].script)
AllAnswered(fd) ==
    /\ fd \in DOMAIN sockets
    /\ Answers(sockets[fd].sent) = Answers(sockets[fd].script)

\* C23: in the io_uring worker every complete request a connection has
\* received is answered in the end, also when the client sends nothing
\* after it: once a client has sent its requests, all of them get answered.
C23_UringReceivedRequestsAnswered ==
    \A fd \in Fds : AllSent(fd) ~> AllAnswered(fd)

\* C24: a set whose value is larger than one buffer and no larger than
\* max_value_size succeeds: the worker keeps the connection open while the
\* value arrives, and what the client receives is STORED or the beginning
\* of it.
C24_LargeValueAccepted ==
    \A fd \in DOMAIN sockets :
        sockets[fd].script = ScriptLargeSet =>
            /\ ~sockets[fd].closed
            /\ \E len \in 0 .. Len(Response_stored) :
                  sockets[fd].sent = SubSeq(Response_stored, 1, len)

\* C25: a set announcing more than max_value_size bytes is answered with a
\* client error and dropped together with its payload, while a set
\* announcing exactly max_value_size bytes is not refused: the client of
\* the oversized set receives the client error and nothing else, since no
\* byte of the payload is taken for a command.
C25_OversizedDiscardedWithPayload ==
    /\ process_memcached(<<"s", ToString(MaxValueSize), CR, LF>>,
                         BufferSize, MaxValueSize).kind # "Response"
    /\ \A fd \in DOMAIN sockets :
          sockets[fd].script = ScriptOversized =>
              \E len \in 0 .. Len(Response_client_error) :
                  sockets[fd].sent = SubSeq(Response_client_error, 1, len)

\* C26: input that violates the memcached protocol is answered with a
\* CLIENT_ERROR line and the connection stays open, so that the command
\* after the next CRLF is answered: the client that sends a line that is no
\* command and then a get is never closed, and what it receives is the
\* client error followed by the answer to the get, or the beginning of that.
C26_ProtocolErrorAnsweredAndKeptOpen ==
    \A fd \in DOMAIN sockets :
        sockets[fd].script = ScriptBad =>
            /\ ~sockets[fd].closed
            /\ \E len \in 0 .. Len(Response_client_error \o Response_end) :
                  sockets[fd].sent =
                      SubSeq(Response_client_error \o Response_end, 1, len)

\* C27: RESP SET honours its conditions on every path that executes RESP
\* commands: with NX and XX it answers an error and stores nothing, with NX
\* on a present live key it answers a null bulk and leaves the old value,
\* with XX on an absent key it answers a null bulk and creates no item.
C27_RespSetHonoursConditions ==
    \A w \in SeqWorkers :
        (pc[w] = "done" /\ loc[w].outer \in {"RespHandler", "execute_resp_command"}) =>
            LET k == loc[w].key
                frame == resp_set_frame(loc[w].outer, loc[w].res)
            IN  /\ (loc[w].nx /\ loc[w].xx) =>
                      (frame = "ERR" /\ data = loc[w].preData)
                /\ (loc[w].nx /\ ~loc[w].xx /\ LiveThroughout(w, k)) =>
                      (frame = "null" /\ data[k] = loc[w].preData[k])
                /\ (~loc[w].nx /\ loc[w].xx /\ AbsentAtCall(w, k)) =>
                      (frame = "null" /\ k \notin DOMAIN data)

C29_RespRoundTrip ==
    \A w \in SeqWorkers :
        /\ (loc[w].op = "round_trip" /\ loc[w].input \in CanonicalFrames)
           => /\ loc[w].parsed.kind = "Complete"
              /\ loc[w].parsed.consumed = Len(loc[w].input)
              /\ pc[w] \in {"encoded", "done"}
                 => loc[w].encoded = loc[w].input
        /\ (loc[w].op = "round_trip" /\ pc[w] = "done"
            /\ loc[w].parsed.kind = "Complete")
           => loc[w].reparsed =
                 ParseResult_Complete(loc[w].parsed.frame, Len(loc[w].encoded))

\* An array holding an array with a bulk string of "\r\n" has made the
\* round trip.
C29_NestedArrayRoundTrip ==
    \E w \in SeqWorkers :
        /\ pc[w] = "done"
        /\ loc[w].op = "round_trip"
        /\ loc[w].parsed.kind = "Complete"
        /\ loc[w].reparsed.kind = "Complete"
        /\ loc[w].parsed.frame.type = "Array"
        /\ \E i \in DOMAIN loc[w].parsed.frame.frames :
              LET inner == loc[w].parsed.frame.frames[i]
              IN  /\ inner.type = "Array"
                  /\ \E j \in DOMAIN inner.frames :
                        inner.frames[j] = Frame_Bulk_Some(<<CR, LF>>)

\* C30: a memcached command with noreply sends no byte and leaves the
\* connection established, in Reading and owning its two buffers, so that
\* the commands after it are answered: the client that sends a delete with
\* noreply and then a get is never closed, its connection keeps two
\* distinct buffers, and what it receives is the answer to the get, or the
\* beginning of that.
C30_NoreplyKeepsConnection ==
    \A fd \in DOMAIN sockets :
        sockets[fd].script = ScriptNoreply =>
            /\ ~sockets[fd].closed
            /\ \E conn_id \in DOMAIN connections :
                  /\ connections[conn_id].stream = fd
                  /\ connections[conn_id].read_buf_idx
                        # connections[conn_id].write_buf_idx
            /\ \E len \in 0 .. Len(Response_end) :
                  sockets[fd].sent = SubSeq(Response_end, 1, len)

\* C31: under any interleaving of concurrent store calls no group of
\* threads waits forever on the data lock and the access-order lock: a call
\* that has started returns in the end.
C31_EveryOperationReturns == \A w \in Workers : Busy(w) ~> ~Busy(w)

\* C32: a get that found a key expired never removes a live item another
\* worker stored under that key after the expiry check.  The reader's get
\* found the key expired and the writer's set returned Stored with an item
\* that never expires: the reader checked before the writer inserted, and
\* once both have returned the item is in the store.
C32_ExpiredGetSparesNewItem ==
    ( /\ pc[Reader] = "done" /\ loc[Reader].op = "get" /\ loc[Reader].sawExpired
      /\ pc[Writer] = "done" /\ loc[Writer].op = "set"
      /\ loc[Writer].res = "Stored"
      /\ loc[Writer].item.expires_at = NoExpiry )
    => /\ loc[Writer].key \in DOMAIN data
       /\ data[loc[Writer].key].cas_unique = loc[Writer].item.cas_unique

\* C33: under any interleaving of concurrent store operations, whenever no
\* store operation is in progress stats().memory_used is the sum over the
\* items present of key length + item overhead + value length.
C33_ConcurrentMemoryUsedIsSum == Quiescent => stats.memory_used = Accounted

\* C34: for a chain of length len and a start_offset below len, the slices
\* of io_slices(pool, start_offset) put together are the bytes
\* start_offset..len of the chain: whenever a connection is writing from
\* its chain, what the next write is handed is all that is left to send.
C34_IoSlicesCoverRemainder ==
    \A conn_id \in DOMAIN connections :
        LET conn == connections[conn_id]
            written == conn.data_state.written
        IN  ( /\ conn.data_state.state = "Writing"
              /\ conn.data_state.buf_idx = usize_MAX
              /\ conn.write_chain.some
              /\ written < conn.write_chain.len )
            => io_slices(conn.write_chain, buffers, written)
                  = SubSeq(assemble(conn.write_chain, buffers),
                           written + 1, conn.write_chain.len)

\* C35: after any sequence of append, clear and push_buffer on a chain,
\* as_contiguous and assemble return exactly the bytes appended since the
\* last clear, in order.
C35_ChainHoldsAppendedBytes ==
    \A w \in SeqWorkers :
        (pc[w] = "chain" /\ ~loc[w].failed)
        => /\ loc[w].chain.len = Len(loc[w].contents)
           /\ assemble(loc[w].chain, buffers) = loc[w].contents
           /\ as_contiguous(loc[w].chain, buffers) = loc[w].contents

\* C36: buffers are conserved between a pool and a chain: across append,
\* also one that fails with PoolExhausted part-way, clear and push_buffer
\* the free buffers of the pool and the buffers of the chain add up to the
\* pool; after release the chain has length 0 and no buffer and the pool
\* has as many more free buffers as the chain held, none of them twice.
C36_ChainConservesBuffers ==
    \A w \in SeqWorkers :
        /\ pc[w] = "chain"
           => Len(buffers.free_list) + Len(loc[w].chain.buffers) = pool_size
        /\ (pc[w] = "done" /\ loc[w].op = "chain")
           => /\ loc[w].chain.len = 0
              /\ loc[w].chain.buffers = <<>>
              /\ Len(buffers.free_list) = loc[w].available + loc[w].held
              /\ Cardinality({buffers.free_list[i] : i \in DOMAIN buffers.free_list})
                    = Len(buffers.free_list)

\* A chain whose append ran out of buffers part-way has been released with
\* every buffer of the pool in it.
C36_ReleasedAfterPoolExhausted ==
    \E w \in SeqWorkers :
        /\ pc[w] = "done" /\ loc[w].op = "chain"
        /\ loc[w].failed
        /\ loc[w].held = pool_size
        /\ Len(buffers.free_list) = pool_size

\* How often idx is on the free list of pool.
Occurrences(pool, idx) ==
    Cardinality({i \in DOMAIN pool.free_list : pool.free_list[i] = idx})

\* One step of the io_uring worker as connection conn_id in Writing sees
\* it, unless the step closes the connection: bytes 0..total of its write
\* buffer stay what they are and the buffer is not free; a write moves
\* written up by the bytes it sent, taken from the buffer at written, and
\* stays below total while the connection is Writing; the write that
\* reaches total leaves the buffer on the free list once and the connection
\* in Reading with its Read submitted.
WriteProgress(conn_id) ==
    LET conn == connections[conn_id]
        phase == conn.phase
        buf == write_buffers.buffers[phase.buf_idx]
    IN  ( /\ conn_id \in DOMAIN connections
          /\ phase.state = "Writing"
          /\ conn_id \in DOMAIN connections' )
        => LET next == connections'[conn_id].phase
           IN  /\ phase.written <= phase.total
               /\ Occurrences(write_buffers, phase.buf_idx) = 0
               /\ SubSeq(write_buffers'.buffers[phase.buf_idx], 1, phase.total)
                     = SubSeq(buf, 1, phase.total)
               /\ next.state = "Writing"
                  => /\ next.buf_idx = phase.buf_idx
                     /\ next.total = phase.total
                     /\ next.written >= phase.written
                     /\ next.written <= next.total
                     /\ next.written > phase.written => next.written < next.total
                     /\ sockets'[conn.fd].sent
                           = sockets[conn.fd].sent
                             \o SubSeq(buf, phase.written + 1, next.written)
                     /\ Write(conn_id, phase.buf_idx) \in tokens'
               /\ next.state = "Reading"
                  => /\ sockets'[conn.fd].sent
                           = sockets[conn.fd].sent
                             \o SubSeq(buf, phase.written + 1, phase.total)
                     /\ Occurrences(write_buffers', phase.buf_idx) = 1
                     /\ Read(conn_id) \in tokens'

\* C37: in the io_uring worker the bytes sent for one response are bytes
\* 0..total of the connection's write buffer, each once and in order,
\* however the kernel splits the write: written only grows and stays
\* within total, and when it reaches total the write buffer is freed once
\* and the connection is in Reading with a new Read submitted.
C37_ShortWritesSendBufferOnce ==
    [][\A conn_id \in ConnIds : WriteProgress(conn_id)]_vars

\* The Read and Write operations in flight for connection conn_id.
InFlight(ops, conn_id) ==
    {op \in ops : op.op \in {"Read", "Write"} /\ op.conn_id = conn_id}

C39_OneOperationPerConnection ==
    \A conn_id \in DOMAIN connections :
        LET phase == connections[conn_id].phase
        IN  /\ phase.state \in {"Reading", "Writing"}
            /\ phase.state = "Reading"
               => InFlight(tokens, conn_id) = {Read(conn_id)}
            /\ phase.state = "Writing"
               => InFlight(tokens, conn_id) = {Write(conn_id, phase.buf_idx)}

\* A connection is Writing part-way through its response while another is
\* Reading, each with its one operation in flight.
C39_WritingBesideReading ==
    \E c, d \in DOMAIN connections :
        /\ connections[c].phase.state = "Writing"
        /\ connections[c].phase.written > 0
        /\ Write(c, connections[c].phase.buf_idx) \in tokens
        /\ connections[d].phase.state = "Reading"
        /\ Read(d) \in tokens

\* C40: incr and decr change the value and the CAS token of the item only:
\* the item they leave has the flags and the expiration instant of the item
\* they found.
C40_IncrKeepsFlagsAndExpiry ==
    \A w \in SeqWorkers :
        LET k == loc[w].key
        IN  ( /\ Returned(w, {"incr", "decr"}) /\ loc[w].res = "Numeric"
              /\ k \in DOMAIN data )
            => /\ data[k].flags = loc[w].preData[k].flags
               /\ data[k].expires_at = loc[w].preData[k].expires_at

====
